---------------------------- MODULE Spec2Model ----------------------------
(***************************************************************************)
(* A model of the PySys process wrapper (pysys/process/plat-unix/helper.py *)
(* on top of pysys/process/commonwrapper.py) and of the outcome list of    *)
(* BaseTest (pysys/basetest.py, pysys/constants.py).                       *)
(*                                                                         *)
(* One process handle is shared by two caller threads and by the handle's  *)
(* stdin writer thread.  Every method is cut into steps at the places      *)
(* where another thread can run in between: taking the handle's lock, the  *)
(* waitpid call, the polling sleep of wait().  The child process and the   *)
(* operating system are the environment.                                   *)
(*                                                                         *)
(* helper.py names its methods setExitStatus / startBackgroundProcess /    *)
(* writeStdin; the commonwrapper.py snapshot calls them _setExitStatus /   *)
(* _startBackgroundProcess.  The model reads the two as the same methods.  *)
(*                                                                         *)
(* Further parts, each with a specification of its own: BackgroundThread   *)
(* (pysys/utils/threadutils.py) with the log handlers of the threads, the  *)
(* thread-scoped handlers of pysys/internal/initlogging.py, the assertions *)
(* and process methods of BaseTest, and the Scheduler running test-cycle   *)
(* units.                                                                  *)
(***************************************************************************)
EXTENDS Integers, Sequences, FiniteSets, TLC

(***************************************************************************)
(* Bounds of the model.                                                    *)
(***************************************************************************)
MaxWrites == 2
MaxTimeout == 1
MaxOutcomes == 3
MaxJoinTimeout == 2
MaxGrace == 1
MaxThreads == 2
PipeCapacity == 1
MaxTests == 4
MaxCycles == 2

(***************************************************************************)
(* Program constants.                                                      *)
(***************************************************************************)
BACKGROUND == 10
FOREGROUND == 11
PASSED == 20
INSPECT == 21
NOTVERIFIED == 22
FAILED == 23
TIMEDOUT == 24
DUMPEDCORE == 25
BLOCKED == 26
SKIPPED == 27
PY_FALSE == 0
PY_TRUE == 1
EX_OSERR == 71
SIGTERM == 15
RETRIES == 3
ChildPid == 4242

PRECEDENT == <<SKIPPED, BLOCKED, DUMPEDCORE, TIMEDOUT, FAILED, NOTVERIFIED, INSPECT, PASSED>>

(***************************************************************************)
(* Python's None and a value that is not None, as sets of at most one      *)
(* element.                                                                *)
(***************************************************************************)
None == {}
Range(s) == {s[i] : i \in 1..Len(s)}
Some(v) == {v}
Val(o) == CHOOSE v \in o : TRUE

Callers == {"main", "aux"}
Writer == "writer"
Threads == Callers \cup {Writer}

NL == "\n"
\* the payloads the callers pass to write(), as sequences of characters
Data == {<<"a">>, <<"b", NL>>}
\* the values a child passes to exit(), and the signals that can end it
ExitArgs == {0, EX_OSERR, -201}
Signals == {SIGTERM}

VARIABLES
    state,        \* self.state: FOREGROUND or BACKGROUND
    timeout,      \* self.timeout: 0 stands for None
    launchable,   \* whether chdir/open/execve of the child succeed
    pid,          \* self.pid
    exitStatus,   \* self.exitStatus
    outQueue,     \* self._outQueue: None, or the queue's items
    stdin,        \* self.__stdin: None, or the write end of the pipe
    lock,         \* self.__lock: None, or the thread holding it
    child,        \* the child in the OS: unborn, running, zombie, reaped
    childEnd,     \* how the child ended: [kind, n]
    sigPending,   \* a signal sent by os.kill that the child has not acted on
    stdinPipe,    \* the bytes written to the child's stdin so far
    pc,           \* each thread's position
    api,          \* the public method a thread is in
    cont,         \* where a thread's setExitStatus call returns to
    rv,           \* the value a thread's setExitStatus call returned
    retries,      \* setExitStatus's local retries
    tmo,          \* wait's timeout argument
    elapsed,      \* currentTime - startTime of a thread's wait, in polls
    exc,          \* the exception in flight inside stop's try block
    wdata,        \* writeStdin's local data
    res,          \* the call that finished in the last step: what it returned or raised
    submitted,    \* history: the payloads put on the queue, in order
    everFalse,    \* history: some setExitStatus call has returned a status, so
                  \* that the running() that made it is false
    sigAfterExit, \* history: os.kill was called with exitStatus already set
    outcome       \* BaseTest.outcome

VARIABLES
    cycles,          \* ConsoleProgressResultsWriter.cycles: 0 before setup
    numTests,        \* ConsoleProgressResultsWriter.numTests: 0 before setup
    pwStarted,       \* history: the units given to processTestStarting
    pwProcessed      \* history: the units given to processResult

VARIABLES
    unread,          \* the chunks in the stdin pipe that the child has not read
    stdinCloses,     \* history: the os.close calls made on the write end
    wroteClosed,     \* history: os.write was called on a write end already closed
    sentRunning      \* history: the payloads put on the queue while the child ran

VARIABLES
    stopping,        \* BackgroundThread.stopping: the Event is set
    exception,       \* BackgroundThread.exception
    outcomeReported, \* BackgroundThread.__outcomeReported
    kbdrInterrupt,   \* BackgroundThread.__kbdrInterrupt is not None
    joinTimeoutSecs, \* BackgroundThread.joinTimeoutSecs
    tpc,             \* the position of the background thread in __run
    inflight,        \* the exception in flight in the background thread
    jpc,             \* the position of the owner's thread in join
    jloc,            \* join's arguments and locals
    reasons,         \* the outcomes join added to the owner, with their reasons
    jres,            \* how the last join call ended, and what it found
    raised,          \* history: what the target raised, and whether stopping
                     \* was set when it raised
    propagated,      \* history: an exception left the thread's run function
    owner            \* BackgroundThread.owner: the thread of the owner test

VARIABLES
    handlers,        \* pysysLogHandler: the log handlers of each thread
    loghandlers,     \* createThreadInitializer's loghandlers
    sinkLog,         \* per log sink, the records it has got
    flushed,         \* pysysLogHandler.flush() was called by the background thread
    bgEmitted        \* history: the records the background thread has emitted

VARIABLES
    rootHandlers,    \* the thread-scoped handlers added to the root logger
    streamLog,       \* per stream of a handler, the records written to it
    testNo           \* per worker, the test it runs: its first or its next

VARIABLES
    procState,       \* per process of the test: unstarted, running or exited
    processList,     \* BaseTest.processList
    startedProcs,    \* history: the processes startProcess has started
    upc,             \* the position of the test's thread: idle, in cleanup, done
    cidx,            \* cleanup's place in processList
    ures             \* the last call of a method of the test: how it ended

VARIABLES
    unitState,       \* per test-cycle unit, its state in the Scheduler
    ran,             \* history: per unit, the phases its worker has run, in order
    interrupted,     \* interruption has been requested
    grace            \* the time the Scheduler has waited since the interruption

VARIABLES
    threads,         \* the size of the worker pool
    idle,            \* the workers of the pool that run no unit
    unitOutcomes,    \* per unit, the outcomes recorded, each with its reason
    thrown,          \* history: the units whose execute or validate raised
    cancelReq,       \* per unit, its cooperative cancellation is requested
    procs,           \* per unit, the process it registered: none, running, stopped
    outDirs,         \* the units whose output directory is created
    inprogress,      \* ConsoleProgressResultsWriter.inprogress
    calls,           \* the writer calls that are being executed
    reported,        \* per unit, the writers whose processResult has got its result
    rpc,             \* the position of the run
    wcleanup,        \* per writer, its cleanup: not called, ok, or failed and warned
    summaries,       \* the summaries of results printed
    cleanedUp,       \* the runner's own cleanup hook was invoked
    exitCode         \* the exit code of the run

progressVars == <<cycles, numTests, pwStarted, pwProcessed>>
pipeVars == <<unread, stdinCloses, wroteClosed, sentRunning>>
threadVars == <<stopping, exception, outcomeReported, kbdrInterrupt,
               joinTimeoutSecs, tpc, inflight, jpc, jloc, reasons, jres, raised,
               propagated, owner>>
logVars == <<handlers, loghandlers, sinkLog, flushed, bgEmitted>>
handlerVars == <<rootHandlers, streamLog, testNo>>
unitVars == <<procState, processList, startedProcs, upc, cidx, ures>>
schedVars == <<unitState, ran, interrupted, grace>>
runVars == <<threads, idle, unitOutcomes, thrown, cancelReq, procs, outDirs, inprogress,
            calls, reported, rpc, wcleanup, summaries, cleanedUp, exitCode>>

procVars == <<state, timeout, launchable, pid, exitStatus, outQueue, stdin, lock,
              child, childEnd, sigPending, stdinPipe, pc, api, cont, rv, retries,
              tmo, elapsed, exc, wdata, res, submitted, everFalse, sigAfterExit>>
vars == <<procVars, outcome, progressVars, pipeVars, threadVars, logVars, handlerVars, unitVars, schedVars, runVars>>

NoRes == [by |-> "none", api |-> "none", out |-> "none", cause |-> "none"]
Result(t, a, o, c) == [by |-> t, api |-> a, out |-> o, cause |-> c]
NoEnd == [kind |-> "none", n |-> 0]

(***************************************************************************)
(* The operating system's wait status and its macros.                      *)
(***************************************************************************)
\* the 16-bit status waitpid reports for a child that ended as childEnd says
EncodeStatus(end) ==
    IF end.kind = "exit" THEN (end.n % 256) * 256 ELSE end.n % 128
WIFEXITED(status) == status % 128 = 0
WEXITSTATUS(status) == (status \div 256) % 256
WIFSIGNALED(status) == status % 128 # 0 /\ status % 128 # 127
WTERMSIG(status) == status % 128

\* setExitStatus, negating the signal number
StatusToExitStatus_negated(status) ==
    IF WIFEXITED(status) THEN WEXITSTATUS(status)
    ELSE IF WIFSIGNALED(status) THEN 0 - WTERMSIG(status)
    ELSE status

\* setExitStatus: the value stored in self.exitStatus for a reaped status
StatusToExitStatus(status) ==
    IF WIFEXITED(status) THEN WEXITSTATUS(status)
    ELSE IF WIFSIGNALED(status) THEN WTERMSIG(status)
    ELSE status

(***************************************************************************)
(* write(): the newline rule.                                              *)
(***************************************************************************)
\* EXPR = re.compile(".*\n$"); EXPR.search(data)
EXPRsearch(data) == Len(data) > 0 /\ data[Len(data)] = NL
Payload(data, addNewLine) ==
    IF addNewLine /\ ~EXPRsearch(data) THEN data \o <<NL>> ELSE data

\* Queue.get, taking the newest item
QueueGet_newest(q) == [data |-> q[Len(q)], rest |-> SubSeq(q, 1, Len(q) - 1)]

\* Queue.get on a queue that is not empty: first in, first out
QueueGet(q) == [data |-> Head(q), rest |-> Tail(q)]

(***************************************************************************)
(* The handle's lock.                                                      *)
(***************************************************************************)
\* no lock at all
CanAcquire_unlocked(t) == TRUE

\* threading.Lock.acquire returns only when no thread holds the lock
CanAcquire(t) == lock = None

\* thread.start_new_thread(self.__writeStdin, ...): where the writer thread
\* begins once the parent has the write end of the pipe
WriterEntry == "w_loop"

\* start() of a wrapper that never waits
StartWaits_never(st) == FALSE

\* start(): a FOREGROUND process is waited for
StartWaits(st) == st = FOREGROUND

(***************************************************************************)
(* Construction: CommonProcessWrapper.__init__ and ProcessWrapper.__init__ *)
(***************************************************************************)
InitProc ==
    /\ state \in {FOREGROUND, BACKGROUND}
    /\ timeout \in 0..MaxTimeout
    /\ state = BACKGROUND => timeout = 0
    /\ launchable \in BOOLEAN
    /\ pid = None
    /\ exitStatus = None
    /\ outQueue = Some(<<>>)
    /\ stdin = None
    /\ lock = None
    /\ child = "unborn"
    /\ childEnd = NoEnd
    /\ sigPending = FALSE
    /\ stdinPipe = <<>>
    /\ pc = [t \in Threads |-> IF t = Writer THEN "w_off" ELSE "idle"]
    /\ api = [t \in Threads |-> "none"]
    /\ cont = [t \in Threads |-> "none"]
    /\ rv = [t \in Threads |-> None]
    /\ retries = [t \in Threads |-> 0]
    /\ tmo = [t \in Threads |-> 0]
    /\ elapsed = [t \in Threads |-> 0]
    /\ exc = [t \in Threads |-> "none"]
    /\ wdata = <<>>
    /\ res = NoRes
    /\ submitted = <<>>
    /\ everFalse = FALSE
    /\ sigAfterExit = FALSE
    /\ unread = 0
    /\ stdinCloses = 0
    /\ wroteClosed = FALSE
    /\ sentRunning = 0

\* a thread calls running(), that is setExitStatus, and comes back at `c`
CallSetExitStatus(t, c) ==
    /\ pc' = [pc EXCEPT ![t] = "sx_acq"]
    /\ cont' = [cont EXCEPT ![t] = c]

\* a public method of a caller thread ends with `r`
Finish(t, r) ==
    /\ pc' = [pc EXCEPT ![t] = "idle"]
    /\ res' = r
    /\ api' = [api EXCEPT ![t] = "none"]
    /\ cont' = [cont EXCEPT ![t] = "none"]
    /\ rv' = [rv EXCEPT ![t] = None]
    /\ tmo' = [tmo EXCEPT ![t] = 0]
    /\ elapsed' = [elapsed EXCEPT ![t] = 0]

\* wait() ends a public method by raising ProcessTimeout; the clock of the
\* wait is kept as it was when the exception was raised
RaiseTimeout(t) ==
    /\ pc' = [pc EXCEPT ![t] = "idle"]
    /\ res' = Result(t, api[t], "ProcessTimeout", "none")
    /\ api' = [api EXCEPT ![t] = "none"]
    /\ cont' = [cont EXCEPT ![t] = "none"]
    /\ rv' = [rv EXCEPT ![t] = None]
    /\ UNCHANGED <<tmo, elapsed>>

(***************************************************************************)
(* Which thread makes which calls: the test's thread starts the process,   *)
(* waits for it and stops it; a second thread polls it, stops it and       *)
(* writes to it.                                                           *)
(***************************************************************************)
MayCall(t, method) ==
    \/ t = "main" /\ method \in {"start", "wait", "stop"}
    \/ t = "aux" /\ method \in {"running", "stop", "write"}

(***************************************************************************)
(* start(), startBackgroundProcess()                                       *)
(***************************************************************************)
\* startBackgroundProcess under process_lock: pipe, fork, the parent keeps
\* the write end; the writer thread begins; then the parent calls running()
start(t) ==
    /\ MayCall(t, "start")
    /\ pc[t] = "idle"
    /\ pid = None
    /\ pid' = Some(ChildPid)
    /\ child' = "running"
    /\ stdin' = Some("stdin_w")
    /\ api' = [api EXCEPT ![t] = "start"]
    /\ res' = NoRes
    /\ pc' = [pc EXCEPT ![t] = "sx_acq", ![Writer] = WriterEntry]
    /\ cont' = [cont EXCEPT ![t] = "startcheck"]
    /\ UNCHANGED <<state, timeout, launchable, exitStatus, outQueue, lock, childEnd,
                   sigPending, stdinPipe, rv, retries, tmo, elapsed, exc, wdata, submitted,
                   everFalse, sigAfterExit, outcome, progressVars, pipeVars, threadVars,
                   logVars, handlerVars, unitVars, schedVars, runVars>>

\* if not self.running() and self.exitStatus == os.EX_OSERR: raise ProcessError
\* and then start()'s choice between waiting and returning
startBackgroundProcess_check(t) ==
    /\ pc[t] = "sx_ret"
    /\ cont[t] = "startcheck"
    /\ IF rv[t] # None /\ exitStatus = Some(EX_OSERR)
       THEN Finish(t, Result(t, "start", "ProcessError", "none"))
       ELSE IF StartWaits(state)
       THEN /\ CallSetExitStatus(t, "wait")
            /\ tmo' = [tmo EXCEPT ![t] = timeout]
            /\ elapsed' = [elapsed EXCEPT ![t] = 0]
            /\ rv' = [rv EXCEPT ![t] = None]
            /\ res' = NoRes
            /\ UNCHANGED api
       ELSE Finish(t, Result(t, "start", "returned", "none"))
    /\ UNCHANGED <<state, timeout, launchable, pid, exitStatus, outQueue, stdin, lock,
                   child, childEnd, sigPending, stdinPipe, retries, exc, wdata, submitted,
                   everFalse, sigAfterExit, outcome, progressVars, pipeVars, threadVars,
                   logVars, handlerVars, unitVars, schedVars, runVars>>

(***************************************************************************)
(* setExitStatus()                                                         *)
(***************************************************************************)
\* setExitStatus asking the OS again on every call
setExitStatus_enter_requery(t) ==
    /\ pc[t] = "sx_acq"
    /\ CanAcquire(t)
    /\ exitStatus' = None
    /\ lock' = Some(t)
    /\ retries' = [retries EXCEPT ![t] = RETRIES]
    /\ pc' = [pc EXCEPT ![t] = "sx_reap"]
    /\ res' = NoRes
    /\ UNCHANGED <<state, timeout, launchable, pid, outQueue, stdin, child, childEnd,
                   sigPending, stdinPipe, api, cont, rv, tmo, elapsed, exc, wdata,
                   submitted, everFalse, sigAfterExit, outcome, progressVars, pipeVars,
                   threadVars, logVars, handlerVars, unitVars, schedVars, runVars>>

\* setExitStatus without its test of self.exitStatus: every call asks the OS
setExitStatus_enter_always(t) ==
    /\ pc[t] = "sx_acq"
    /\ CanAcquire(t)
    /\ lock' = Some(t)
    /\ retries' = [retries EXCEPT ![t] = RETRIES]
    /\ pc' = [pc EXCEPT ![t] = "sx_reap"]
    /\ res' = NoRes
    /\ UNCHANGED <<state, timeout, launchable, pid, exitStatus, outQueue, stdin, child,
                   childEnd, sigPending, stdinPipe, api, cont, rv, tmo, elapsed, exc,
                   wdata, submitted, everFalse, sigAfterExit, outcome, progressVars,
                   pipeVars, threadVars, logVars, handlerVars, unitVars, schedVars, runVars>>

\* with self.__lock: if self.exitStatus is not None: return self.exitStatus
\* retries = 3
setExitStatus_enter(t) ==
    /\ pc[t] = "sx_acq"
    /\ CanAcquire(t)
    /\ IF exitStatus # None
       THEN /\ rv' = [rv EXCEPT ![t] = exitStatus]
            /\ pc' = [pc EXCEPT ![t] = "sx_ret"]
            /\ everFalse' = TRUE
            /\ UNCHANGED <<lock, retries>>
       ELSE /\ lock' = Some(t)
            /\ retries' = [retries EXCEPT ![t] = RETRIES]
            /\ pc' = [pc EXCEPT ![t] = "sx_reap"]
            /\ UNCHANGED <<rv, everFalse>>
    /\ res' = NoRes
    /\ UNCHANGED <<state, timeout, launchable, pid, exitStatus, outQueue, stdin, child,
                   childEnd, sigPending, stdinPipe, api, cont, tmo, elapsed, exc, wdata,
                   submitted, sigAfterExit, outcome, progressVars, pipeVars, threadVars,
                   logVars, handlerVars, unitVars, schedVars, runVars>>

\* what the last step got from os.waitpid when it raised ECHILD
EchildRaised(t) == Result(t, "waitpid", "ECHILD", "none")

\* a loop that does not count its retries: except OSError: time.sleep(0.01)
setExitStatus_waitpid_forever(t) ==
    /\ pc[t] = "sx_reap"
    /\ res' = EchildRaised(t)
    /\ UNCHANGED <<state, timeout, launchable, pid, exitStatus, outQueue, stdin, lock,
                   child, childEnd, sigPending, stdinPipe, pc, api, cont, rv, retries, tmo,
                   elapsed, exc, wdata, submitted, everFalse, sigAfterExit, outcome,
                   progressVars, pipeVars, threadVars, logVars, handlerVars, unitVars,
                   schedVars, runVars>>

\* one turn of the while loop: os.waitpid(self.pid, os.WNOHANG) returns the
\* child's status, or (0, 0) while the child runs, or raises ECHILD (then
\* time.sleep(0.01) and one retry less)
setExitStatus_waitpid(t) ==
    /\ pc[t] = "sx_reap"
    /\ \/ /\ child = "zombie"
          /\ child' = "reaped"
          /\ exitStatus' = Some(StatusToExitStatus(EncodeStatus(childEnd)))
          /\ outQueue' = None
          /\ retries' = [retries EXCEPT ![t] = 0]
          /\ pc' = [pc EXCEPT ![t] = "sx_fin"]
          /\ res' = NoRes
       \/ /\ child = "running"
          /\ retries' = [retries EXCEPT ![t] = 0]
          /\ pc' = [pc EXCEPT ![t] = "sx_fin"]
          /\ res' = NoRes
          /\ UNCHANGED <<child, exitStatus, outQueue>>
       \/ /\ retries' = [retries EXCEPT ![t] = retries[t] - 1]
          /\ pc' = [pc EXCEPT ![t] = IF retries[t] - 1 > 0 THEN "sx_reap" ELSE "sx_fin"]
          /\ res' = EchildRaised(t)
          /\ UNCHANGED <<child, exitStatus, outQueue>>
    /\ UNCHANGED <<state, timeout, launchable, pid, stdin, lock, childEnd, sigPending,
                   stdinPipe, api, cont, rv, tmo, elapsed, exc, wdata, submitted,
                   everFalse, sigAfterExit, outcome, progressVars, pipeVars, threadVars,
                   logVars, handlerVars, unitVars, schedVars, runVars>>

\* if self.exitStatus != None: close self.__stdin once; return self.exitStatus
setExitStatus_close(t) ==
    /\ pc[t] = "sx_fin"
    /\ stdin' = IF exitStatus # None THEN None ELSE stdin
    /\ stdinCloses' = IF exitStatus # None /\ stdin # None
                         THEN stdinCloses + 1 ELSE stdinCloses
    /\ rv' = [rv EXCEPT ![t] = exitStatus]
    /\ lock' = None
    /\ pc' = [pc EXCEPT ![t] = "sx_ret"]
    /\ everFalse' = (everFalse \/ exitStatus # None)
    /\ res' = NoRes
    /\ UNCHANGED <<state, timeout, launchable, pid, exitStatus, outQueue, child, childEnd,
                   sigPending, stdinPipe, api, cont, retries, tmo, elapsed, exc, wdata,
                   submitted, sigAfterExit, outcome, progressVars, unread, wroteClosed,
                   sentRunning, threadVars, logVars, handlerVars, unitVars, schedVars,
                   runVars>>

(***************************************************************************)
(* running()                                                               *)
(***************************************************************************)
running(t) ==
    /\ MayCall(t, "running")
    /\ pc[t] = "idle"
    /\ pid # None
    /\ api' = [api EXCEPT ![t] = "running"]
    /\ res' = NoRes
    /\ CallSetExitStatus(t, "running")
    /\ UNCHANGED <<state, timeout, launchable, pid, exitStatus, outQueue, stdin, lock,
                   child, childEnd, sigPending, stdinPipe, rv, retries, tmo, elapsed, exc,
                   wdata, submitted, everFalse, sigAfterExit, outcome, progressVars,
                   pipeVars, threadVars, logVars, handlerVars, unitVars, schedVars, runVars>>

\* return self._setExitStatus() is None
running_return(t) ==
    /\ pc[t] = "sx_ret"
    /\ cont[t] = "running"
    /\ Finish(t, Result(t, "running", IF rv[t] = None THEN "True" ELSE "False", "none"))
    /\ UNCHANGED <<state, timeout, launchable, pid, exitStatus, outQueue, stdin, lock,
                   child, childEnd, sigPending, stdinPipe, retries, exc, wdata, submitted,
                   everFalse, sigAfterExit, outcome, progressVars, pipeVars, threadVars,
                   logVars, handlerVars, unitVars, schedVars, runVars>>

(***************************************************************************)
(* wait(timeout)                                                           *)
(***************************************************************************)
\* startTime = time.time(); while self.running(): ...
wait(t, tm) ==
    /\ MayCall(t, "wait")
    /\ pc[t] = "idle"
    /\ pid # None
    /\ api' = [api EXCEPT ![t] = "wait"]
    /\ res' = NoRes
    /\ tmo' = [tmo EXCEPT ![t] = tm]
    /\ elapsed' = [elapsed EXCEPT ![t] = 0]
    /\ CallSetExitStatus(t, "wait")
    /\ UNCHANGED <<state, timeout, launchable, pid, exitStatus, outQueue, stdin, lock,
                   child, childEnd, sigPending, stdinPipe, rv, retries, exc, wdata,
                   submitted, everFalse, sigAfterExit, outcome, progressVars, pipeVars,
                   threadVars, logVars, handlerVars, unitVars, schedVars, runVars>>

\* running() was false: the loop ends and wait returns to start, stop or the caller
wait_return(t) ==
    /\ pc[t] = "sx_ret"
    /\ cont[t] = "wait"
    /\ rv[t] # None
    /\ Finish(t, Result(t, api[t], "returned", "none"))
    /\ UNCHANGED <<state, timeout, launchable, pid, exitStatus, outQueue, stdin, lock,
                   child, childEnd, sigPending, stdinPipe, retries, exc, wdata, submitted,
                   everFalse, sigAfterExit, outcome, progressVars, pipeVars, threadVars,
                   logVars, handlerVars, unitVars, schedVars, runVars>>

\* the time test of the loop: if timeout: ... currentTime > startTime + timeout
TimedOut(t) == tmo[t] # 0 /\ elapsed[t] > tmo[t]

\* a wait that terminates the process when its timeout is exceeded
wait_timeout_kill(t) ==
    /\ pc[t] = "sx_ret"
    /\ cont[t] = "wait"
    /\ rv[t] = None
    /\ TimedOut(t)
    /\ sigPending' = TRUE
    /\ IF api[t] = "stop"
       THEN /\ exc' = [exc EXCEPT ![t] = "ProcessTimeout"]
            /\ pc' = [pc EXCEPT ![t] = "stop_except"]
            /\ res' = NoRes
            /\ UNCHANGED <<api, cont, rv, tmo, elapsed>>
       ELSE /\ RaiseTimeout(t)
            /\ UNCHANGED exc
    /\ UNCHANGED <<state, timeout, launchable, pid, exitStatus, outQueue, stdin, lock,
                   child, childEnd, stdinPipe, retries, wdata, submitted, everFalse,
                   sigAfterExit, outcome, progressVars, pipeVars, threadVars, logVars,
                   handlerVars, unitVars, schedVars, runVars>>

\* raise ProcessTimeout, "Process timedout"
\* (inside stop() the exception reaches stop's except clause)
wait_timeout(t) ==
    /\ pc[t] = "sx_ret"
    /\ cont[t] = "wait"
    /\ rv[t] = None
    /\ TimedOut(t)
    /\ IF api[t] = "stop"
       THEN /\ exc' = [exc EXCEPT ![t] = "ProcessTimeout"]
            /\ pc' = [pc EXCEPT ![t] = "stop_except"]
            /\ res' = NoRes
            /\ UNCHANGED <<api, cont, rv, tmo, elapsed>>
       ELSE /\ RaiseTimeout(t)
            /\ UNCHANGED exc
    /\ UNCHANGED <<state, timeout, launchable, pid, exitStatus, outQueue, stdin, lock,
                   child, childEnd, sigPending, stdinPipe, retries, wdata, submitted,
                   everFalse, sigAfterExit, outcome, progressVars, pipeVars, threadVars,
                   logVars, handlerVars, unitVars, schedVars, runVars>>

\* time.sleep(0.05), then running() again; the clock moves on by one poll or more
wait_sleep(t) ==
    /\ pc[t] = "sx_ret"
    /\ cont[t] = "wait"
    /\ rv[t] = None
    /\ ~TimedOut(t)
    /\ \E e \in elapsed[t]..(tmo[t] + 1) :
          /\ tmo[t] # 0 => e > elapsed[t]
          /\ tmo[t] = 0 => e = elapsed[t]
          /\ elapsed' = [elapsed EXCEPT ![t] = e]
    /\ pc' = [pc EXCEPT ![t] = "sx_acq"]
    /\ res' = NoRes
    /\ UNCHANGED <<state, timeout, launchable, pid, exitStatus, outQueue, stdin, lock,
                   child, childEnd, sigPending, stdinPipe, api, cont, rv, retries, tmo,
                   exc, wdata, submitted, everFalse, sigAfterExit, outcome, progressVars,
                   pipeVars, threadVars, logVars, handlerVars, unitVars, schedVars, runVars>>

(***************************************************************************)
(* stop(timeout)                                                           *)
(***************************************************************************)
stop(t, tm) ==
    /\ MayCall(t, "stop")
    /\ pc[t] = "idle"
    /\ pid # None
    /\ api' = [api EXCEPT ![t] = "stop"]
    /\ res' = NoRes
    /\ tmo' = [tmo EXCEPT ![t] = tm]
    /\ pc' = [pc EXCEPT ![t] = "stop_acq"]
    /\ UNCHANGED <<state, timeout, launchable, pid, exitStatus, outQueue, stdin, lock,
                   child, childEnd, sigPending, stdinPipe, cont, rv, retries, elapsed, exc,
                   wdata, submitted, everFalse, sigAfterExit, outcome, progressVars,
                   pipeVars, threadVars, logVars, handlerVars, unitVars, schedVars, runVars>>

\* with self.__lock: if self.exitStatus is not None: return
stop_enter(t) ==
    /\ pc[t] = "stop_acq"
    /\ CanAcquire(t)
    /\ IF exitStatus # None
       THEN /\ Finish(t, Result(t, "stop", "returned", "none"))
            /\ UNCHANGED lock
       ELSE /\ lock' = Some(t)
            /\ pc' = [pc EXCEPT ![t] = "stop_kill"]
            /\ res' = NoRes
            /\ UNCHANGED <<api, cont, rv, tmo, elapsed>>
    /\ UNCHANGED <<state, timeout, launchable, pid, exitStatus, outQueue, stdin, child,
                   childEnd, sigPending, stdinPipe, retries, exc, wdata, submitted,
                   everFalse, sigAfterExit, outcome, progressVars, pipeVars, threadVars,
                   logVars, handlerVars, unitVars, schedVars, runVars>>

\* os.kill(self.pid, signal.SIGTERM), still under the lock; then
\* self.wait(timeout=timeout).  The kill raises OSError when the pid is gone
\* and may raise it when the child is not the caller's to signal.
stop_kill(t) ==
    /\ pc[t] = "stop_kill"
    /\ sigAfterExit' = (sigAfterExit \/ exitStatus # None)
    /\ lock' = None
    /\ \/ /\ child # "reaped"
          /\ sigPending' = TRUE
          /\ elapsed' = [elapsed EXCEPT ![t] = 0]
          /\ CallSetExitStatus(t, "wait")
          /\ UNCHANGED exc
       \/ /\ exc' = [exc EXCEPT ![t] = "OSError"]
          /\ pc' = [pc EXCEPT ![t] = "stop_except"]
          /\ UNCHANGED <<sigPending, elapsed, cont>>
    /\ res' = NoRes
    /\ UNCHANGED <<state, timeout, launchable, pid, exitStatus, outQueue, stdin, child,
                   childEnd, stdinPipe, api, rv, retries, tmo, wdata, submitted, everFalse,
                   outcome, progressVars, pipeVars, threadVars, logVars, handlerVars,
                   unitVars, schedVars, runVars>>

\* a stop that lets the exception of its try block through
stop_except_reraise(t) ==
    /\ pc[t] = "stop_except"
    /\ Finish(t, Result(t, "stop", exc[t], exc[t]))
    /\ exc' = [exc EXCEPT ![t] = "none"]
    /\ UNCHANGED <<state, timeout, launchable, pid, exitStatus, outQueue, stdin, lock,
                   child, childEnd, sigPending, stdinPipe, retries, wdata, submitted,
                   everFalse, sigAfterExit, outcome, progressVars, pipeVars, threadVars,
                   logVars, handlerVars, unitVars, schedVars, runVars>>

\* except: raise ProcessError, "Error stopping process"
stop_except(t) ==
    /\ pc[t] = "stop_except"
    /\ Finish(t, Result(t, "stop", "ProcessError", exc[t]))
    /\ exc' = [exc EXCEPT ![t] = "none"]
    /\ UNCHANGED <<state, timeout, launchable, pid, exitStatus, outQueue, stdin, lock,
                   child, childEnd, sigPending, stdinPipe, retries, wdata, submitted,
                   everFalse, sigAfterExit, outcome, progressVars, pipeVars, threadVars,
                   logVars, handlerVars, unitVars, schedVars, runVars>>

(***************************************************************************)
(* write(data, addNewLine)                                                 *)
(***************************************************************************)
\* self._outQueue.put(data): None has no put, an AttributeError
write(t, data, addNewLine) ==
    /\ MayCall(t, "write")
    /\ pc[t] = "idle"
    /\ Len(submitted) < MaxWrites
    /\ IF outQueue = None
       THEN /\ Finish(t, Result(t, "write", "AttributeError", "none"))
            /\ UNCHANGED <<outQueue, submitted, sentRunning>>
       ELSE /\ outQueue' = Some(Append(Val(outQueue), Payload(data, addNewLine)))
            /\ submitted' = Append(submitted, Payload(data, addNewLine))
            /\ sentRunning' = IF child = "running" THEN sentRunning + 1 ELSE sentRunning
            /\ Finish(t, Result(t, "write", "returned", "none"))
    /\ UNCHANGED <<state, timeout, launchable, pid, exitStatus, stdin, lock, child,
                   childEnd, sigPending, stdinPipe, retries, exc, wdata, everFalse,
                   sigAfterExit, outcome, progressVars, unread, stdinCloses, wroteClosed,
                   threadVars, logVars, handlerVars, unitVars, schedVars, runVars>>

(***************************************************************************)
(* writeStdin(), the writer thread                                         *)
(***************************************************************************)
\* while self._outQueue:
writeStdin_loop ==
    /\ pc[Writer] = "w_loop"
    /\ pc' = [pc EXCEPT ![Writer] = IF outQueue # None THEN "w_get" ELSE "w_done"]
    /\ res' = NoRes
    /\ UNCHANGED <<state, timeout, launchable, pid, exitStatus, outQueue, stdin, lock,
                   child, childEnd, sigPending, stdinPipe, api, cont, rv, retries, tmo,
                   elapsed, exc, wdata, submitted, everFalse, sigAfterExit, outcome,
                   progressVars, pipeVars, threadVars, logVars, handlerVars, unitVars,
                   schedVars, runVars>>

\* a writer that goes round its loop on Queue.Empty without calling running()
writeStdin_get_nopoll ==
    /\ pc[Writer] = "w_get"
    /\ IF outQueue = None
       THEN /\ pc' = [pc EXCEPT ![Writer] = "w_dead"]
            /\ UNCHANGED <<outQueue, wdata>>
       ELSE IF Val(outQueue) # <<>>
       THEN /\ wdata' = QueueGet(Val(outQueue)).data
            /\ outQueue' = Some(QueueGet(Val(outQueue)).rest)
            /\ pc' = [pc EXCEPT ![Writer] = "w_lock"]
       ELSE /\ pc' = [pc EXCEPT ![Writer] = "w_loop"]
            /\ UNCHANGED <<outQueue, wdata>>
    /\ res' = NoRes
    /\ UNCHANGED <<state, timeout, launchable, pid, exitStatus, stdin, lock, child,
                   childEnd, sigPending, stdinPipe, api, cont, rv, retries, tmo, elapsed,
                   exc, submitted, everFalse, sigAfterExit, outcome, progressVars,
                   pipeVars, threadVars, logVars, handlerVars, unitVars, schedVars, runVars>>

\* data = self._outQueue.get(block=True, timeout=0.25); on Queue.Empty the
\* thread calls running().  self._outQueue may have become None since the
\* loop test: the thread then dies of an AttributeError.
writeStdin_get ==
    /\ pc[Writer] = "w_get"
    /\ IF outQueue = None
       THEN /\ pc' = [pc EXCEPT ![Writer] = "w_dead"]
            /\ UNCHANGED <<outQueue, wdata, cont>>
       ELSE IF Val(outQueue) # <<>>
       THEN /\ wdata' = QueueGet(Val(outQueue)).data
            /\ outQueue' = Some(QueueGet(Val(outQueue)).rest)
            /\ pc' = [pc EXCEPT ![Writer] = "w_lock"]
            /\ UNCHANGED cont
       ELSE /\ CallSetExitStatus(Writer, "writer")
            /\ UNCHANGED <<outQueue, wdata>>
    /\ res' = NoRes
    /\ UNCHANGED <<state, timeout, launchable, pid, exitStatus, stdin, lock, child,
                   childEnd, sigPending, stdinPipe, api, rv, retries, tmo, elapsed, exc,
                   submitted, everFalse, sigAfterExit, outcome, progressVars, pipeVars,
                   threadVars, logVars, handlerVars, unitVars, schedVars, runVars>>

\* if not self.running(): break
writeStdin_running ==
    /\ pc[Writer] = "sx_ret"
    /\ cont[Writer] = "writer"
    /\ pc' = [pc EXCEPT ![Writer] = IF rv[Writer] # None THEN "w_done" ELSE "w_loop"]
    /\ cont' = [cont EXCEPT ![Writer] = "none"]
    /\ rv' = [rv EXCEPT ![Writer] = None]
    /\ res' = NoRes
    /\ UNCHANGED <<state, timeout, launchable, pid, exitStatus, outQueue, stdin, lock,
                   child, childEnd, sigPending, stdinPipe, api, retries, tmo, elapsed, exc,
                   wdata, submitted, everFalse, sigAfterExit, outcome, progressVars,
                   pipeVars, threadVars, logVars, handlerVars, unitVars, schedVars, runVars>>

\* a writer that tests self.__stdin and writes without taking the lock
writeStdin_acquire_unlocked ==
    /\ pc[Writer] = "w_lock"
    /\ IF stdin # None
       THEN /\ pc' = [pc EXCEPT ![Writer] = "w_write"]
            /\ UNCHANGED wdata
       ELSE /\ pc' = [pc EXCEPT ![Writer] = "w_loop"]
            /\ wdata' = <<>>
    /\ res' = NoRes
    /\ UNCHANGED <<state, timeout, launchable, pid, exitStatus, outQueue, stdin, lock,
                   child, childEnd, sigPending, stdinPipe, api, cont, rv, retries, tmo,
                   elapsed, exc, submitted, everFalse, sigAfterExit, outcome, progressVars,
                   pipeVars, threadVars, logVars, handlerVars, unitVars, schedVars, runVars>>

\* with self.__lock: if self.__stdin: ...  When the descriptor is None the
\* chunk is dropped and the lock released at once.
writeStdin_acquire ==
    /\ pc[Writer] = "w_lock"
    /\ CanAcquire(Writer)
    /\ IF stdin # None
       THEN /\ lock' = Some(Writer)
            /\ pc' = [pc EXCEPT ![Writer] = "w_write"]
            /\ UNCHANGED wdata
       ELSE /\ pc' = [pc EXCEPT ![Writer] = "w_loop"]
            /\ wdata' = <<>>
            /\ UNCHANGED lock
    /\ res' = NoRes
    /\ UNCHANGED <<state, timeout, launchable, pid, exitStatus, outQueue, stdin, child,
                   childEnd, sigPending, stdinPipe, api, cont, rv, retries, tmo, elapsed,
                   exc, submitted, everFalse, sigAfterExit, outcome, progressVars,
                   pipeVars, threadVars, logVars, handlerVars, unitVars, schedVars, runVars>>

\* the holder of the lock after the writer's with block
WriterRelease == IF lock = Some(Writer) THEN None ELSE lock

\* os.write(self.__stdin, data), inside the with block: it returns when the
\* pipe has room, it blocks while the pipe is full and the child runs, and
\* it raises OSError (EPIPE) when the child, the pipe's only reader, is
\* gone; the exception leaves the with block and ends the thread
writeStdin_write ==
    /\ pc[Writer] = "w_write"
    /\ wroteClosed' = (wroteClosed \/ stdin = None)
    /\ lock' = WriterRelease
    /\ \/ /\ child = "running"
          /\ unread < PipeCapacity
          /\ stdinPipe' = stdinPipe \o wdata
          /\ unread' = unread + 1
          /\ pc' = [pc EXCEPT ![Writer] = "w_loop"]
       \/ /\ child # "running"
          /\ pc' = [pc EXCEPT ![Writer] = "w_dead"]
          /\ UNCHANGED <<stdinPipe, unread>>
    /\ wdata' = <<>>
    /\ res' = NoRes
    /\ UNCHANGED <<state, timeout, launchable, pid, exitStatus, outQueue, stdin, child,
                   childEnd, sigPending, api, cont, rv, retries, tmo, elapsed, exc,
                   submitted, everFalse, sigAfterExit, outcome, progressVars, stdinCloses,
                   sentRunning, threadVars, logVars, handlerVars, unitVars, schedVars,
                   runVars>>

(***************************************************************************)
(* The child process                                                       *)
(***************************************************************************)
\* chdir, open or execve raised in the child: os._exit(os.EX_OSERR)
child_exec_fail ==
    /\ child = "running"
    /\ ~launchable
    /\ child' = "zombie"
    /\ childEnd' = [kind |-> "exit", n |-> EX_OSERR]
    /\ res' = NoRes
    /\ UNCHANGED <<state, timeout, launchable, pid, exitStatus, outQueue, stdin, lock,
                   sigPending, stdinPipe, pc, api, cont, rv, retries, tmo, elapsed, exc,
                   wdata, submitted, everFalse, sigAfterExit, outcome, progressVars,
                   pipeVars, threadVars, logVars, handlerVars, unitVars, schedVars, runVars>>

\* the executed program calls exit(n)
child_exit(n) ==
    /\ child = "running"
    /\ launchable
    /\ child' = "zombie"
    /\ childEnd' = [kind |-> "exit", n |-> n]
    /\ res' = NoRes
    /\ UNCHANGED <<state, timeout, launchable, pid, exitStatus, outQueue, stdin, lock,
                   sigPending, stdinPipe, pc, api, cont, rv, retries, tmo, elapsed, exc,
                   wdata, submitted, everFalse, sigAfterExit, outcome, progressVars,
                   pipeVars, threadVars, logVars, handlerVars, unitVars, schedVars, runVars>>

\* the executed program reads a chunk from its stdin
child_read ==
    /\ child = "running"
    /\ unread > 0
    /\ unread' = unread - 1
    /\ res' = NoRes
    /\ UNCHANGED <<state, timeout, launchable, pid, exitStatus, outQueue, stdin, lock,
                   child, childEnd, sigPending, stdinPipe, pc, api, cont, rv, retries, tmo,
                   elapsed, exc, wdata, submitted, everFalse, sigAfterExit, outcome,
                   progressVars, stdinCloses, wroteClosed, sentRunning, threadVars,
                   logVars, handlerVars, unitVars, schedVars, runVars>>

\* the child is terminated by the signal sent to it
child_signaled(sig) ==
    /\ child = "running"
    /\ sigPending
    /\ child' = "zombie"
    /\ childEnd' = [kind |-> "signal", n |-> sig]
    /\ sigPending' = FALSE
    /\ res' = NoRes
    /\ UNCHANGED <<state, timeout, launchable, pid, exitStatus, outQueue, stdin, lock,
                   stdinPipe, pc, api, cont, rv, retries, tmo, elapsed, exc, wdata,
                   submitted, everFalse, sigAfterExit, outcome, progressVars, pipeVars,
                   threadVars, logVars, handlerVars, unitVars, schedVars, runVars>>

Next ==
    \/ \E t \in Callers : start(t)
    \/ \E t \in Callers : startBackgroundProcess_check(t)
    \/ \E t \in Threads : setExitStatus_enter(t)
    \/ \E t \in Threads : setExitStatus_waitpid(t)
    \/ \E t \in Threads : setExitStatus_close(t)
    \/ \E t \in Callers : running(t)
    \/ \E t \in Callers : running_return(t)
    \/ \E t \in Callers, tm \in 0..MaxTimeout : wait(t, tm)
    \/ \E t \in Callers : wait_return(t)
    \/ \E t \in Callers : wait_timeout(t)
    \/ \E t \in Callers : wait_sleep(t)
    \/ \E t \in Callers, tm \in 1..MaxTimeout : stop(t, tm)
    \/ \E t \in Callers : stop_enter(t)
    \/ \E t \in Callers : stop_kill(t)
    \/ \E t \in Callers : stop_except(t)
    \/ writeStdin_loop
    \/ writeStdin_get
    \/ writeStdin_running
    \/ child_exec_fail
    \/ \E n \in ExitArgs : child_exit(n)
    \/ \E sig \in Signals : child_signaled(sig)

NextStdin ==
    \/ \E t \in Callers : start(t)
    \/ \E t \in Callers : startBackgroundProcess_check(t)
    \/ \E t \in Threads : setExitStatus_enter(t)
    \/ \E t \in Threads : setExitStatus_waitpid(t)
    \/ \E t \in Threads : setExitStatus_close(t)
    \/ \E t \in Callers, data \in Data, addNewLine \in BOOLEAN : write(t, data, addNewLine)
    \/ writeStdin_loop
    \/ writeStdin_get
    \/ writeStdin_running
    \/ writeStdin_acquire
    \/ writeStdin_write
    \/ child_read
    \/ \E n \in ExitArgs : child_exit(n)

\* a handle that is polled, stopped and written to while its writer thread
\* feeds the child's stdin
NextPipe ==
    \/ \E t \in Callers : start(t)
    \/ \E t \in Callers : startBackgroundProcess_check(t)
    \/ \E t \in Threads : setExitStatus_enter(t)
    \/ \E t \in Threads : setExitStatus_waitpid(t)
    \/ \E t \in Threads : setExitStatus_close(t)
    \/ \E t \in Callers : running(t)
    \/ \E t \in Callers : running_return(t)
    \/ stop("aux", MaxTimeout)
    \/ \E t \in Callers : stop_enter(t)
    \/ \E t \in Callers : stop_kill(t)
    \/ \E t \in Callers : stop_except(t)
    \/ \E t \in Callers : wait_return(t)
    \/ \E t \in Callers : wait_timeout(t)
    \/ \E t \in Callers : wait_sleep(t)
    \/ \E t \in Callers : write(t, <<"a">>, FALSE)
    \/ writeStdin_loop
    \/ writeStdin_get
    \/ writeStdin_running
    \/ writeStdin_acquire
    \/ writeStdin_write
    \/ child_read
    \/ child_exit(0)
    \/ \E sig \in Signals : child_signaled(sig)

\* a handle that is started and written to, its writer thread and its child
NextWriter ==
    \/ \E t \in Callers : start(t)
    \/ \E t \in Callers : startBackgroundProcess_check(t)
    \/ \E t \in Threads : setExitStatus_enter(t)
    \/ \E t \in Threads : setExitStatus_waitpid(t)
    \/ \E t \in Threads : setExitStatus_close(t)
    \/ \E t \in Callers : write(t, <<"a">>, FALSE)
    \/ writeStdin_loop
    \/ writeStdin_get
    \/ writeStdin_running
    \/ writeStdin_acquire
    \/ writeStdin_write
    \/ child_read
    \/ child_exit(0)

(***************************************************************************)
(* BaseTest: addOutcome and getOutcome                                     *)
(***************************************************************************)
\* PRECEDENT.index(x)
PrecedentIndex(x) == CHOOSE i \in 1..Len(PRECEDENT) :
    PRECEDENT[i] = x /\ \A j \in 1..(i - 1) : PRECEDENT[j] # x

\* cmp(PRECEDENT.index(x), PRECEDENT.index(y)) <= 0
CmpLE(x, y) == PrecedentIndex(x) <= PrecedentIndex(y)

RECURSIVE InsertSorted(_, _)
InsertSorted(x, sorted) ==
    IF sorted = <<>> THEN <<x>>
    ELSE IF CmpLE(Head(sorted), x) THEN <<Head(sorted)>> \o InsertSorted(x, Tail(sorted))
    ELSE <<x>> \o sorted

\* list.sort(cmp): a stable sort
RECURSIVE SortList(_)
SortList(list) ==
    IF list = <<>> THEN <<>>
    ELSE InsertSorted(list[Len(list)], SortList(SubSeq(list, 1, Len(list) - 1)))

\* getOutcome without the sort: the first outcome recorded
getOutcome_first(oc) ==
    IF Len(oc) = 0 THEN NOTVERIFIED ELSE oc[1]

\* getOutcome
getOutcome(oc) ==
    IF Len(oc) = 0 THEN NOTVERIFIED ELSE SortList(oc)[1]

InitOutcome ==
    outcome = [list |-> <<>>, got |-> None]

\* self.outcome.append(outcome)
addOutcome(o) ==
    /\ Len(outcome.list) < MaxOutcomes
    /\ outcome' = [list |-> Append(outcome.list, o), got |-> None]
    /\ UNCHANGED <<procVars, progressVars, pipeVars, threadVars, logVars, handlerVars, unitVars, schedVars, runVars>>

\* a call of getOutcome(); its value is kept beside the list
getOutcome_call ==
    /\ outcome.got = None
    /\ outcome' = [outcome EXCEPT !.got = Some(getOutcome(outcome.list))]
    /\ UNCHANGED <<procVars, progressVars, pipeVars, threadVars, logVars, handlerVars, unitVars, schedVars, runVars>>

NextOutcome ==
    \/ \E o \in {PRECEDENT[i] : i \in 1..Len(PRECEDENT)} : addOutcome(o)
    \/ getOutcome_call

(***************************************************************************)
(* BackgroundThread (pysys/utils/threadutils.py): one background thread of *)
(* an owner test, started when it is created.  The owner's thread asks it *)
(* to stop and joins it, any number of times; the thread runs __run around *)
(* its target.  The log handlers of each thread are kept by                *)
(* pysysLogHandler.                                                        *)
(***************************************************************************)
BgThread == "bg"
Workers == {"worker1", "worker2"}
LogThreads == Workers \cup {BgThread}
Sinks == {"run1.log", "run2.log", "run3.log", "run4.log"}
\* the run.log of the test a worker runs first, and of the test it runs next
FirstSink(w) == IF w = "worker1" THEN "run1.log" ELSE "run2.log"
NextSink(w) == IF w = "worker1" THEN "run3.log" ELSE "run4.log"

\* what a target can raise: an Exception, or a BaseException that is none
Exceptions ==
    { [class |-> "IOError", msg |-> "disk", kind |-> "Exception"],
      [class |-> "SystemExit", msg |-> "1", kind |-> "BaseException"] }

NoJloc == [outcomereported |-> FALSE, asked |-> 0, timeout |-> 0, timetaken |-> 0,
           abortOnError |-> FALSE]
NoJres == [out |-> "none", found |-> "none", first |-> FALSE, timeout |-> 0,
           timetaken |-> 0]
JoinResult(o, f) ==
    [out |-> o, found |-> f, first |-> ~jloc.outcomereported,
     timeout |-> jloc.timeout, timetaken |-> jloc.timetaken]

\* threading.Thread.is_alive(); the owner starts the thread as soon as it
\* has created it
is_alive == tpc # "terminated"

\* a log record, and its delivery to the sinks hs
Record(t, m) == [by |-> t, msg |-> m]
Deliver(log, hs, rec) ==
    [s \in Sinks |-> IF s \in hs THEN log[s] \cup {rec} ELSE log[s]]

\* the message of the TIMEDOUT outcome, and of the BLOCKED outcome
TimedOutReason(secs) == [outcome |-> TIMEDOUT, thread |-> BgThread, secs |-> secs]
BlockedReason(ex) ==
    [outcome |-> BLOCKED, thread |-> BgThread, class |-> ex.class, msg |-> ex.msg]

InitThread ==
    /\ stopping = FALSE
    /\ exception = None
    /\ outcomeReported = FALSE
    /\ kbdrInterrupt = FALSE
    /\ joinTimeoutSecs \in 1..MaxJoinTimeout
    /\ tpc = "initializer"
    /\ inflight = None
    /\ jpc = "idle"
    /\ jloc = NoJloc
    /\ reasons = <<>>
    /\ jres = NoJres
    /\ raised = None
    /\ propagated = FALSE
    /\ owner \in Workers

\* every worker has registered the run.log of its test; the initializer of
\* the background thread holds the handlers of the thread that created it
InitLog ==
    /\ handlers = [t \in LogThreads |-> IF t \in Workers THEN {FirstSink(t)} ELSE {}]
    /\ loghandlers = handlers[owner]
    /\ sinkLog = [s \in Sinks |-> {}]
    /\ flushed = FALSE
    /\ bgEmitted = {}

\* stop(): self.stopping.set()
BackgroundThread_stop ==
    /\ jpc = "idle"
    /\ stopping' = TRUE
    /\ res' = NoRes
    /\ UNCHANGED <<state, timeout, launchable, pid, exitStatus, outQueue, stdin, lock,
                   child, childEnd, sigPending, stdinPipe, pc, api, cont, rv, retries, tmo,
                   elapsed, exc, wdata, submitted, everFalse, sigAfterExit, outcome,
                   progressVars, pipeVars, exception, outcomeReported, kbdrInterrupt,
                   joinTimeoutSecs, tpc, inflight, jpc, jloc, reasons, jres, raised,
                   propagated, owner, logVars, handlerVars, unitVars, schedVars, runVars>>

\* a timeout that is used as it was given
JoinTimeout_asgiven(tm) == tm

\* if not timeout: timeout = self.joinTimeoutSecs
JoinTimeout(tm) == IF tm = 0 THEN joinTimeoutSecs ELSE tm

\* join that does not note that it has been called
join_forgetful(tm, abort) ==
    /\ jpc = "idle"
    /\ outcomeReported' = outcomeReported
    /\ jloc' = [outcomereported |-> outcomeReported,
                asked |-> tm, timeout |-> JoinTimeout(tm),
                timetaken |-> 0, abortOnError |-> abort]
    /\ jpc' = "loop"
    /\ jres' = NoJres
    /\ res' = NoRes
    /\ UNCHANGED <<state, timeout, launchable, pid, exitStatus, outQueue, stdin, lock,
                   child, childEnd, sigPending, stdinPipe, pc, api, cont, rv, retries, tmo,
                   elapsed, exc, wdata, submitted, everFalse, sigAfterExit, outcome,
                   progressVars, pipeVars, stopping, exception, kbdrInterrupt,
                   joinTimeoutSecs, tpc, inflight, reasons, raised, propagated, owner,
                   logVars, handlerVars, unitVars, schedVars, runVars>>

\* join(timeout, abortOnError) up to the polling loop; timeout 0 stands for
\* None
join(tm, abort) ==
    /\ jpc = "idle"
    /\ outcomeReported' = TRUE
    /\ jloc' = [outcomereported |-> outcomeReported,
                asked |-> tm, timeout |-> JoinTimeout(tm),
                timetaken |-> 0, abortOnError |-> abort]
    /\ IF kbdrInterrupt
          THEN /\ jpc' = "idle"
               /\ jres' = [NoJres EXCEPT !.out = "KeyboardInterrupt",
                                         !.first = ~outcomeReported]
          ELSE /\ jpc' = "loop"
               /\ jres' = NoJres
    /\ res' = NoRes
    /\ UNCHANGED <<state, timeout, launchable, pid, exitStatus, outQueue, stdin, lock,
                   child, childEnd, sigPending, stdinPipe, pc, api, cont, rv, retries, tmo,
                   elapsed, exc, wdata, submitted, everFalse, sigAfterExit, outcome,
                   progressVars, pipeVars, stopping, exception, kbdrInterrupt,
                   joinTimeoutSecs, tpc, inflight, reasons, raised, propagated, owner,
                   logVars, handlerVars, unitVars, schedVars, runVars>>

\* the interrupt of a blocked thread.join(1)
join_interrupt ==
    /\ jpc = "loop"
    /\ is_alive /\ jloc.timetaken < jloc.timeout
    /\ kbdrInterrupt' = TRUE
    /\ jres' = JoinResult("KeyboardInterrupt", "none")
    /\ jpc' = "idle"
    /\ res' = NoRes
    /\ UNCHANGED <<state, timeout, launchable, pid, exitStatus, outQueue, stdin, lock,
                   child, childEnd, sigPending, stdinPipe, pc, api, cont, rv, retries, tmo,
                   elapsed, exc, wdata, submitted, everFalse, sigAfterExit, outcome,
                   progressVars, pipeVars, stopping, exception, outcomeReported,
                   joinTimeoutSecs, tpc, inflight, jloc, reasons, raised, propagated,
                   owner, logVars, handlerVars, unitVars, schedVars, runVars>>

\* while self.thread.is_alive() and time.time()-starttime < timeout:
\*     self.thread.join(1)
join_loop ==
    /\ jpc = "loop"
    /\ IF is_alive /\ jloc.timetaken < jloc.timeout
          THEN /\ jloc' = [jloc EXCEPT !.timetaken = @ + 1]
               /\ jpc' = jpc
          ELSE /\ jpc' = "check"
               /\ jloc' = jloc
    /\ res' = NoRes
    /\ UNCHANGED <<state, timeout, launchable, pid, exitStatus, outQueue, stdin, lock,
                   child, childEnd, sigPending, stdinPipe, pc, api, cont, rv, retries, tmo,
                   elapsed, exc, wdata, submitted, everFalse, sigAfterExit, outcome,
                   progressVars, pipeVars, stopping, exception, outcomeReported,
                   kbdrInterrupt, joinTimeoutSecs, tpc, inflight, reasons, jres, raised,
                   propagated, owner, logVars, handlerVars, unitVars, schedVars, runVars>>

\* owner.addOutcome(outcome, reason, abortOnError): the outcome joins the
\* owner's list, and the call raises when abortOnError is set
ReportOutcome(r) ==
    /\ outcome' = [list |-> Append(outcome.list, r.outcome), got |-> None]
    /\ reasons' = Append(reasons, r)

\* the end of join's try to report: it goes on, or addOutcome has aborted it
AfterReport(found, next) ==
    IF ~jloc.outcomereported /\ jloc.abortOnError
       THEN /\ jpc' = "idle"
            /\ jres' = JoinResult("abort", found)
       ELSE /\ jpc' = next
            /\ jres' = IF next = "idle" THEN JoinResult("returned", found) ELSE jres

\* what join does once the loop is over: the thread is alive, or it has
\* failed, or neither
join_check ==
    /\ jpc = "check"
    /\ IF is_alive
          THEN /\ IF ~jloc.outcomereported
                     THEN ReportOutcome(TimedOutReason(jloc.timeout))
                     ELSE UNCHANGED <<outcome, reasons>>
               /\ AfterReport("alive", "stop")
          ELSE IF exception # None
          THEN /\ IF ~jloc.outcomereported
                     THEN ReportOutcome(BlockedReason(Val(exception)))
                     ELSE UNCHANGED <<outcome, reasons>>
               /\ AfterReport("exception", "idle")
          ELSE /\ UNCHANGED <<outcome, reasons>>
               /\ jpc' = "idle"
               /\ jres' = JoinResult("returned", "clean")
    /\ res' = NoRes
    /\ UNCHANGED <<state, timeout, launchable, pid, exitStatus, outQueue, stdin, lock,
                   child, childEnd, sigPending, stdinPipe, pc, api, cont, rv, retries, tmo,
                   elapsed, exc, wdata, submitted, everFalse, sigAfterExit, progressVars,
                   pipeVars, stopping, exception, outcomeReported, kbdrInterrupt,
                   joinTimeoutSecs, tpc, inflight, jloc, raised, propagated, owner,
                   logVars, handlerVars, unitVars, schedVars, runVars>>

\* join leaving a hanging thread alone
join_stop_skipped ==
    /\ jpc = "stop"
    /\ jpc' = "idle"
    /\ jres' = JoinResult("returned", "alive")
    /\ res' = NoRes
    /\ UNCHANGED <<state, timeout, launchable, pid, exitStatus, outQueue, stdin, lock,
                   child, childEnd, sigPending, stdinPipe, pc, api, cont, rv, retries, tmo,
                   elapsed, exc, wdata, submitted, everFalse, sigAfterExit, outcome,
                   progressVars, pipeVars, stopping, exception, outcomeReported,
                   kbdrInterrupt, joinTimeoutSecs, tpc, inflight, jloc, reasons, raised,
                   propagated, owner, logVars, handlerVars, unitVars, schedVars, runVars>>

\* self.stop() # ensure it stops as quickly as possible
join_stop ==
    /\ jpc = "stop"
    /\ stopping' = TRUE
    /\ jpc' = "idle"
    /\ jres' = JoinResult("returned", "alive")
    /\ res' = NoRes
    /\ UNCHANGED <<state, timeout, launchable, pid, exitStatus, outQueue, stdin, lock,
                   child, childEnd, sigPending, stdinPipe, pc, api, cont, rv, retries, tmo,
                   elapsed, exc, wdata, submitted, everFalse, sigAfterExit, outcome,
                   progressVars, pipeVars, exception, outcomeReported, kbdrInterrupt,
                   joinTimeoutSecs, tpc, inflight, jloc, reasons, raised, propagated,
                   owner, logVars, handlerVars, unitVars, schedVars, runVars>>

\* an initializer that asks for the creating thread's handlers when it
\* runs, not when it is created
run_initializer_late ==
    /\ tpc = "initializer"
    /\ handlers' = [handlers EXCEPT ![BgThread] = handlers[owner]]
    /\ sinkLog' = Deliver(sinkLog, handlers'[BgThread], Record(BgThread, "starting"))
    /\ bgEmitted' = bgEmitted \cup {Record(BgThread, "starting")}
    /\ tpc' = "target"
    /\ res' = NoRes
    /\ UNCHANGED <<state, timeout, launchable, pid, exitStatus, outQueue, stdin, lock,
                   child, childEnd, sigPending, stdinPipe, pc, api, cont, rv, retries, tmo,
                   elapsed, exc, wdata, submitted, everFalse, sigAfterExit, outcome,
                   progressVars, pipeVars, stopping, exception, outcomeReported,
                   kbdrInterrupt, joinTimeoutSecs, inflight, jpc, jloc, reasons, jres,
                   raised, propagated, owner, loghandlers, flushed, handlerVars, unitVars,
                   schedVars, runVars>>

\* __run: self.initializer(), which takes over the handlers of the thread
\* that created the BackgroundThread, and the first log.debug calls
run_initializer ==
    /\ tpc = "initializer"
    /\ handlers' = [handlers EXCEPT ![BgThread] = loghandlers]
    /\ sinkLog' = Deliver(sinkLog, handlers'[BgThread], Record(BgThread, "starting"))
    /\ bgEmitted' = bgEmitted \cup {Record(BgThread, "starting")}
    /\ tpc' = "target"
    /\ res' = NoRes
    /\ UNCHANGED <<state, timeout, launchable, pid, exitStatus, outQueue, stdin, lock,
                   child, childEnd, sigPending, stdinPipe, pc, api, cont, rv, retries, tmo,
                   elapsed, exc, wdata, submitted, everFalse, sigAfterExit, outcome,
                   progressVars, pipeVars, stopping, exception, outcomeReported,
                   kbdrInterrupt, joinTimeoutSecs, inflight, jpc, jloc, reasons, jres,
                   raised, propagated, owner, loghandlers, flushed, handlerVars, unitVars,
                   schedVars, runVars>>

\* the target logs through the log it was given
target_log ==
    /\ tpc = "target"
    /\ sinkLog' = Deliver(sinkLog, handlers[BgThread], Record(BgThread, "target"))
    /\ bgEmitted' = bgEmitted \cup {Record(BgThread, "target")}
    /\ res' = NoRes
    /\ UNCHANGED <<state, timeout, launchable, pid, exitStatus, outQueue, stdin, lock,
                   child, childEnd, sigPending, stdinPipe, pc, api, cont, rv, retries, tmo,
                   elapsed, exc, wdata, submitted, everFalse, sigAfterExit, outcome,
                   progressVars, pipeVars, threadVars, handlers, loghandlers, flushed,
                   handlerVars, unitVars, schedVars, runVars>>

\* the target returns
target_complete ==
    /\ tpc = "target"
    /\ sinkLog' = Deliver(sinkLog, handlers[BgThread], Record(BgThread, "completed"))
    /\ bgEmitted' = bgEmitted \cup {Record(BgThread, "completed")}
    /\ tpc' = "finally"
    /\ res' = NoRes
    /\ UNCHANGED <<state, timeout, launchable, pid, exitStatus, outQueue, stdin, lock,
                   child, childEnd, sigPending, stdinPipe, pc, api, cont, rv, retries, tmo,
                   elapsed, exc, wdata, submitted, everFalse, sigAfterExit, outcome,
                   progressVars, pipeVars, stopping, exception, outcomeReported,
                   kbdrInterrupt, joinTimeoutSecs, inflight, jpc, jloc, reasons, jres,
                   raised, propagated, owner, handlers, loghandlers, flushed, handlerVars,
                   unitVars, schedVars, runVars>>

\* the target raises
target_raise(ex) ==
    /\ tpc = "target"
    /\ inflight' = Some(ex)
    /\ raised' = Some([ex |-> ex, stopping |-> stopping])
    /\ tpc' = "except"
    /\ res' = NoRes
    /\ UNCHANGED <<state, timeout, launchable, pid, exitStatus, outQueue, stdin, lock,
                   child, childEnd, sigPending, stdinPipe, pc, api, cont, rv, retries, tmo,
                   elapsed, exc, wdata, submitted, everFalse, sigAfterExit, outcome,
                   progressVars, pipeVars, stopping, exception, outcomeReported,
                   kbdrInterrupt, joinTimeoutSecs, jpc, jloc, reasons, jres, propagated,
                   owner, logVars, handlerVars, unitVars, schedVars, runVars>>

\* an except clause that keeps the exception whether stopping is set or not
run_except_keep ==
    /\ tpc = "except"
    /\ IF Val(inflight).kind # "Exception"
          THEN UNCHANGED <<inflight, exception, sinkLog, bgEmitted>>
          ELSE /\ inflight' = None
               /\ sinkLog' = Deliver(sinkLog, handlers[BgThread], Record(BgThread, "failed"))
               /\ bgEmitted' = bgEmitted \cup {Record(BgThread, "failed")}
               /\ exception' = inflight
    /\ tpc' = "finally"
    /\ res' = NoRes
    /\ UNCHANGED <<state, timeout, launchable, pid, exitStatus, outQueue, stdin, lock,
                   child, childEnd, sigPending, stdinPipe, pc, api, cont, rv, retries, tmo,
                   elapsed, exc, wdata, submitted, everFalse, sigAfterExit, outcome,
                   progressVars, pipeVars, stopping, outcomeReported, kbdrInterrupt,
                   joinTimeoutSecs, jpc, jloc, reasons, jres, raised, propagated, owner,
                   handlers, loghandlers, flushed, handlerVars, unitVars, schedVars,
                   runVars>>

\* except Exception as ex: ignored when stopping is set, kept in
\* self.exception otherwise; what is no Exception is not caught
run_except ==
    /\ tpc = "except"
    /\ IF Val(inflight).kind # "Exception"
          THEN UNCHANGED <<inflight, exception, sinkLog, bgEmitted>>
          ELSE /\ inflight' = None
               /\ sinkLog' = Deliver(sinkLog, handlers[BgThread], Record(BgThread, "failed"))
               /\ bgEmitted' = bgEmitted \cup {Record(BgThread, "failed")}
               /\ exception' = IF stopping THEN exception ELSE inflight
    /\ tpc' = "finally"
    /\ res' = NoRes
    /\ UNCHANGED <<state, timeout, launchable, pid, exitStatus, outQueue, stdin, lock,
                   child, childEnd, sigPending, stdinPipe, pc, api, cont, rv, retries, tmo,
                   elapsed, exc, wdata, submitted, everFalse, sigAfterExit, outcome,
                   progressVars, pipeVars, stopping, outcomeReported, kbdrInterrupt,
                   joinTimeoutSecs, jpc, jloc, reasons, jres, raised, propagated, owner,
                   handlers, loghandlers, flushed, handlerVars, unitVars, schedVars,
                   runVars>>

\* a finally clause that flushes and leaves the handlers registered
run_finally_keep ==
    /\ tpc = "finally"
    /\ flushed' = TRUE
    /\ tpc' = "exit"
    /\ res' = NoRes
    /\ UNCHANGED <<state, timeout, launchable, pid, exitStatus, outQueue, stdin, lock,
                   child, childEnd, sigPending, stdinPipe, pc, api, cont, rv, retries, tmo,
                   elapsed, exc, wdata, submitted, everFalse, sigAfterExit, outcome,
                   progressVars, pipeVars, stopping, exception, outcomeReported,
                   kbdrInterrupt, joinTimeoutSecs, inflight, jpc, jloc, reasons, jres,
                   raised, propagated, owner, handlers, loghandlers, sinkLog, bgEmitted,
                   handlerVars, unitVars, schedVars, runVars>>

\* finally: pysysLogHandler.flush(); setLogHandlersForCurrentThread([])
run_finally ==
    /\ tpc = "finally"
    /\ flushed' = TRUE
    /\ handlers' = [handlers EXCEPT ![BgThread] = {}]
    /\ tpc' = "exit"
    /\ res' = NoRes
    /\ UNCHANGED <<state, timeout, launchable, pid, exitStatus, outQueue, stdin, lock,
                   child, childEnd, sigPending, stdinPipe, pc, api, cont, rv, retries, tmo,
                   elapsed, exc, wdata, submitted, everFalse, sigAfterExit, outcome,
                   progressVars, pipeVars, stopping, exception, outcomeReported,
                   kbdrInterrupt, joinTimeoutSecs, inflight, jpc, jloc, reasons, jres,
                   raised, propagated, owner, loghandlers, sinkLog, bgEmitted, handlerVars,
                   unitVars, schedVars, runVars>>

\* the thread ends: __run has returned, or an exception has left it
thread_exit ==
    /\ tpc = "exit"
    /\ propagated' = (inflight # None)
    /\ tpc' = "terminated"
    /\ res' = NoRes
    /\ UNCHANGED <<state, timeout, launchable, pid, exitStatus, outQueue, stdin, lock,
                   child, childEnd, sigPending, stdinPipe, pc, api, cont, rv, retries, tmo,
                   elapsed, exc, wdata, submitted, everFalse, sigAfterExit, outcome,
                   progressVars, pipeVars, stopping, exception, outcomeReported,
                   kbdrInterrupt, joinTimeoutSecs, inflight, jpc, jloc, reasons, jres,
                   raised, owner, logVars, handlerVars, unitVars, schedVars, runVars>>

\* a worker's own thread logs
worker_log(w) ==
    /\ sinkLog' = Deliver(sinkLog, handlers[w], Record(w, "test"))
    /\ sinkLog' # sinkLog
    /\ res' = NoRes
    /\ UNCHANGED <<state, timeout, launchable, pid, exitStatus, outQueue, stdin, lock,
                   child, childEnd, sigPending, stdinPipe, pc, api, cont, rv, retries, tmo,
                   elapsed, exc, wdata, submitted, everFalse, sigAfterExit, outcome,
                   progressVars, pipeVars, threadVars, handlers, loghandlers, flushed,
                   bgEmitted, handlerVars, unitVars, schedVars, runVars>>

\* a worker goes on to its next test and registers that test's run.log
worker_nextTest(w) ==
    /\ handlers[w] = {FirstSink(w)}
    /\ handlers' = [handlers EXCEPT ![w] = {NextSink(w)}]
    /\ res' = NoRes
    /\ UNCHANGED <<state, timeout, launchable, pid, exitStatus, outQueue, stdin, lock,
                   child, childEnd, sigPending, stdinPipe, pc, api, cont, rv, retries, tmo,
                   elapsed, exc, wdata, submitted, everFalse, sigAfterExit, outcome,
                   progressVars, pipeVars, threadVars, loghandlers, sinkLog, flushed,
                   bgEmitted, handlerVars, unitVars, schedVars, runVars>>

NextThread ==
    \/ BackgroundThread_stop
    \/ \E tm \in 0..MaxJoinTimeout, abort \in BOOLEAN : join(tm, abort)
    \/ join_interrupt
    \/ join_loop
    \/ join_check
    \/ join_stop
    \/ run_initializer
    \/ target_log
    \/ target_complete
    \/ \E ex \in Exceptions : target_raise(ex)
    \/ run_except
    \/ run_finally
    \/ thread_exit

\* the background thread and the workers, logging
NextLog ==
    \/ BackgroundThread_stop
    \/ run_initializer
    \/ target_log
    \/ target_complete
    \/ \E ex \in Exceptions : target_raise(ex)
    \/ run_except
    \/ run_finally
    \/ thread_exit
    \/ \E w \in Workers : worker_log(w)
    \/ \E w \in Workers : worker_nextTest(w)

(***************************************************************************)
(* The thread-scoped log handlers (pysys/internal/initlogging.py):         *)
(* ThreadedStreamHandler for stdout, made by the main thread, and one      *)
(* ThreadedFileHandler per test, made by the worker that runs the test.    *)
(* All of them are handlers of the one root logger.                        *)
(***************************************************************************)
MainThread == "MainThread"
AllThreads == {MainThread} \cup Workers \cup {BgThread}
Stdout == "stdout"
Streams == {Stdout} \cup Sinks
Messages == {"m1", "m2"}

\* threading.current_thread().ident of a running thread
Ident(t) ==
    CASE t = MainThread -> 7001
      [] t = "worker1" -> 7002
      [] t = "worker2" -> 7003
      [] t = BgThread -> 7004

\* ThreadedStreamHandler.__init__ / ThreadedFileHandler.__init__ in thread t
ThreadedHandler(t, stream) == [threadId |-> Ident(t), stream |-> stream]

\* the run.log of the test worker w runs
CurrentSink(w) == IF testNo[w] = 1 THEN FirstSink(w) ELSE NextSink(w)

\* emit without the test of the thread
ThreadedHandler_emit_any(h, t) == TRUE

\* emit(record) by thread t: whether the handler writes the record
ThreadedHandler_emit(h, t) == ~(h.threadId # Ident(t))

InitHandlers ==
    /\ rootHandlers = {ThreadedHandler(MainThread, Stdout)}
    /\ streamLog = [s \in Streams |-> {}]
    /\ testNo = [w \in Workers |-> 1]

\* a worker starts its test: it makes the handler of the test's run.log in
\* its own thread and adds it to the root logger
worker_addHandler(w) ==
    /\ ThreadedHandler(w, CurrentSink(w)) \notin rootHandlers
    /\ rootHandlers' = rootHandlers \cup {ThreadedHandler(w, CurrentSink(w))}
    /\ res' = NoRes
    /\ UNCHANGED <<state, timeout, launchable, pid, exitStatus, outQueue, stdin, lock,
                   child, childEnd, sigPending, stdinPipe, pc, api, cont, rv, retries, tmo,
                   elapsed, exc, wdata, submitted, everFalse, sigAfterExit, outcome,
                   progressVars, pipeVars, threadVars, logVars, streamLog, testNo,
                   unitVars, schedVars, runVars>>

\* a worker ends its first test: it removes the handler and goes on
worker_removeHandler(w) ==
    /\ testNo[w] = 1
    /\ ThreadedHandler(w, CurrentSink(w)) \in rootHandlers
    /\ rootHandlers' = rootHandlers \ {ThreadedHandler(w, CurrentSink(w))}
    /\ testNo' = [testNo EXCEPT ![w] = 2]
    /\ res' = NoRes
    /\ UNCHANGED <<state, timeout, launchable, pid, exitStatus, outQueue, stdin, lock,
                   child, childEnd, sigPending, stdinPipe, pc, api, cont, rv, retries, tmo,
                   elapsed, exc, wdata, submitted, everFalse, sigAfterExit, outcome,
                   progressVars, pipeVars, threadVars, logVars, streamLog, unitVars,
                   schedVars, runVars>>

\* thread t logs a record: the root logger calls emit of each of its handlers
log_record(t, m) ==
    /\ streamLog' = [s \in Streams |->
          IF \E h \in rootHandlers : h.stream = s /\ ThreadedHandler_emit(h, t)
             THEN streamLog[s] \cup {Record(t, m)}
             ELSE streamLog[s]]
    /\ res' = NoRes
    /\ UNCHANGED <<state, timeout, launchable, pid, exitStatus, outQueue, stdin, lock,
                   child, childEnd, sigPending, stdinPipe, pc, api, cont, rv, retries, tmo,
                   elapsed, exc, wdata, submitted, everFalse, sigAfterExit, outcome,
                   progressVars, pipeVars, threadVars, logVars, rootHandlers, testNo,
                   unitVars, schedVars, runVars>>

NextHandlers ==
    \/ \E w \in Workers : worker_addHandler(w)
    \/ \E w \in Workers : worker_removeHandler(w)
    \/ \E t \in AllThreads, m \in Messages : log_record(t, m)

(***************************************************************************)
(* BaseTest (pysys/basetest.py): the assertions, the process methods and   *)
(* cleanup of one test, called by the test's thread.  A call of the        *)
(* process wrapper is one step here, with the ways helper.py lets it end:  *)
(* start() returns, raises ProcessError or, in the foreground, raises      *)
(* ProcessTimeout and leaves the process running; stop() and signal()      *)
(* return or raise ProcessError.                                           *)
(***************************************************************************)
Procs == {"p1", "p2"}
\* the values a test passes to assertTrue / assertFalse
Exprs == {PY_FALSE, PY_TRUE, 2}

NoUres == [svc |-> "none", out |-> "none", callee |-> "none", arg |-> 0, len |-> 0]
UnitResult(s, o, c, a) ==
    [svc |-> s, out |-> o, callee |-> c, arg |-> a, len |-> Len(outcome.list)]

\* how process.start() can end, and the state it leaves the process in
StartResults(st) ==
    IF st = FOREGROUND THEN {"returned", "ProcessError", "ProcessTimeout"}
                       ELSE {"returned", "ProcessError"}
AfterStart(st, r) ==
    IF r = "ProcessTimeout" \/ (r = "returned" /\ st = BACKGROUND)
       THEN "running" ELSE "exited"
\* how process.stop() and process.signal() can end
CallResults == {"returned", "ProcessError"}

InitUnit ==
    /\ procState = [p \in Procs |-> "unstarted"]
    /\ processList = <<>>
    /\ startedProcs = {}
    /\ upc = "idle"
    /\ cidx = 0
    /\ ures = NoUres

\* self.addOutcome(o), by a method of the test
AddOutcome(o) == outcome' = [list |-> Append(outcome.list, o), got |-> None]

\* an assertTrue that raises when the expression is not true
assertTrue_raising(e) ==
    /\ upc = "idle"
    /\ Len(outcome.list) < MaxOutcomes
    /\ IF e = PY_TRUE
          THEN /\ AddOutcome(PASSED)
               /\ ures' = UnitResult("assertTrue", "returned", "none", e)
          ELSE /\ UNCHANGED outcome
               /\ ures' = UnitResult("assertTrue", "AssertionError", "none", e)
    /\ res' = NoRes
    /\ UNCHANGED <<state, timeout, launchable, pid, exitStatus, outQueue, stdin, lock,
                   child, childEnd, sigPending, stdinPipe, pc, api, cont, rv, retries, tmo,
                   elapsed, exc, wdata, submitted, everFalse, sigAfterExit, progressVars,
                   pipeVars, threadVars, logVars, handlerVars, procState, processList,
                   startedProcs, upc, cidx, schedVars, runVars>>

assertTrue(e) ==
    /\ upc = "idle"
    /\ Len(outcome.list) < MaxOutcomes
    /\ IF e = PY_TRUE THEN AddOutcome(PASSED) ELSE AddOutcome(FAILED)
    /\ ures' = UnitResult("assertTrue", "returned", "none", e)
    /\ res' = NoRes
    /\ UNCHANGED <<state, timeout, launchable, pid, exitStatus, outQueue, stdin, lock,
                   child, childEnd, sigPending, stdinPipe, pc, api, cont, rv, retries, tmo,
                   elapsed, exc, wdata, submitted, everFalse, sigAfterExit, progressVars,
                   pipeVars, threadVars, logVars, handlerVars, procState, processList,
                   startedProcs, upc, cidx, schedVars, runVars>>

assertFalse(e) ==
    /\ upc = "idle"
    /\ Len(outcome.list) < MaxOutcomes
    /\ IF e = PY_FALSE THEN AddOutcome(PASSED) ELSE AddOutcome(FAILED)
    /\ ures' = UnitResult("assertFalse", "returned", "none", e)
    /\ res' = NoRes
    /\ UNCHANGED <<state, timeout, launchable, pid, exitStatus, outQueue, stdin, lock,
                   child, childEnd, sigPending, stdinPipe, pc, api, cont, rv, retries, tmo,
                   elapsed, exc, wdata, submitted, everFalse, sigAfterExit, progressVars,
                   pipeVars, threadVars, logVars, handlerVars, procState, processList,
                   startedProcs, upc, cidx, schedVars, runVars>>

\* startProcess(..., state=st), the start() of the new process ending as r
startProcess(p, st, r) ==
    /\ upc = "idle"
    /\ Len(outcome.list) < MaxOutcomes
    /\ procState[p] = "unstarted"
    /\ r \in StartResults(st)
    /\ procState' = [procState EXCEPT ![p] = AfterStart(st, r)]
    /\ startedProcs' = startedProcs \cup {p}
    /\ CASE r = "ProcessError" ->
              AddOutcome(BLOCKED) /\ UNCHANGED processList
         [] r = "ProcessTimeout" ->
              AddOutcome(TIMEDOUT) /\ UNCHANGED processList
         [] OTHER ->
              processList' = Append(processList, p) /\ UNCHANGED outcome
    /\ ures' = UnitResult("startProcess", "returned", r, 0)
    /\ res' = NoRes
    /\ UNCHANGED <<state, timeout, launchable, pid, exitStatus, outQueue, stdin, lock,
                   child, childEnd, sigPending, stdinPipe, pc, api, cont, rv, retries, tmo,
                   elapsed, exc, wdata, submitted, everFalse, sigAfterExit, progressVars,
                   pipeVars, threadVars, logVars, handlerVars, upc, cidx, schedVars,
                   runVars>>

\* a stopProcess that lets the error of stop() through
stopProcess_uncaught(p, r) ==
    /\ upc = "idle"
    /\ Len(outcome.list) < MaxOutcomes
    /\ p \in Range(processList)
    /\ IF procState[p] = "running"
          THEN /\ procState' = [procState EXCEPT
                                   ![p] = IF r = "returned" THEN "exited" ELSE @]
               /\ ures' = UnitResult("stopProcess", r, r, 0)
          ELSE /\ UNCHANGED procState
               /\ ures' = UnitResult("stopProcess", "returned", "none", 0)
    /\ res' = NoRes
    /\ UNCHANGED <<state, timeout, launchable, pid, exitStatus, outQueue, stdin, lock,
                   child, childEnd, sigPending, stdinPipe, pc, api, cont, rv, retries, tmo,
                   elapsed, exc, wdata, submitted, everFalse, sigAfterExit, outcome,
                   progressVars, pipeVars, threadVars, logVars, handlerVars, processList,
                   startedProcs, upc, cidx, schedVars, runVars>>

\* stopProcess(process), the stop() of a running process ending as r
stopProcess(p, r) ==
    /\ upc = "idle"
    /\ Len(outcome.list) < MaxOutcomes
    /\ p \in Range(processList)
    /\ IF procState[p] = "running"
          THEN /\ procState' = [procState EXCEPT
                                   ![p] = IF r = "returned" THEN "exited" ELSE @]
               /\ IF r = "ProcessError" THEN AddOutcome(BLOCKED)
                                        ELSE UNCHANGED outcome
               /\ ures' = UnitResult("stopProcess", "returned", r, 0)
          ELSE /\ UNCHANGED <<procState, outcome>>
               /\ ures' = UnitResult("stopProcess", "returned", "none", 0)
    /\ res' = NoRes
    /\ UNCHANGED <<state, timeout, launchable, pid, exitStatus, outQueue, stdin, lock,
                   child, childEnd, sigPending, stdinPipe, pc, api, cont, rv, retries, tmo,
                   elapsed, exc, wdata, submitted, everFalse, sigAfterExit, progressVars,
                   pipeVars, threadVars, logVars, handlerVars, processList, startedProcs,
                   upc, cidx, schedVars, runVars>>

\* signalProcess(process, signal), the signal() of a running process ending
\* as r
signalProcess(p, r) ==
    /\ upc = "idle"
    /\ Len(outcome.list) < MaxOutcomes
    /\ p \in Range(processList)
    /\ IF procState[p] = "running"
          THEN /\ IF r = "ProcessError" THEN AddOutcome(BLOCKED)
                                        ELSE UNCHANGED outcome
               /\ ures' = UnitResult("signalProcess", "returned", r, 0)
          ELSE /\ UNCHANGED outcome
               /\ ures' = UnitResult("signalProcess", "returned", "none", 0)
    /\ res' = NoRes
    /\ UNCHANGED <<state, timeout, launchable, pid, exitStatus, outQueue, stdin, lock,
                   child, childEnd, sigPending, stdinPipe, pc, api, cont, rv, retries, tmo,
                   elapsed, exc, wdata, submitted, everFalse, sigAfterExit, progressVars,
                   pipeVars, threadVars, logVars, handlerVars, procState, processList,
                   startedProcs, upc, cidx, schedVars, runVars>>

\* a running process of the test ends by itself
process_exit(p) ==
    /\ procState[p] = "running"
    /\ procState' = [procState EXCEPT ![p] = "exited"]
    /\ res' = NoRes
    /\ UNCHANGED <<state, timeout, launchable, pid, exitStatus, outQueue, stdin, lock,
                   child, childEnd, sigPending, stdinPipe, pc, api, cont, rv, retries, tmo,
                   elapsed, exc, wdata, submitted, everFalse, sigAfterExit, outcome,
                   progressVars, pipeVars, threadVars, logVars, handlerVars, processList,
                   startedProcs, upc, cidx, ures, schedVars, runVars>>

\* cleanup() is called
cleanup ==
    /\ upc = "idle"
    /\ upc' = "cleanup"
    /\ cidx' = 1
    /\ res' = NoRes
    /\ UNCHANGED <<state, timeout, launchable, pid, exitStatus, outQueue, stdin, lock,
                   child, childEnd, sigPending, stdinPipe, pc, api, cont, rv, retries, tmo,
                   elapsed, exc, wdata, submitted, everFalse, sigAfterExit, outcome,
                   progressVars, pipeVars, threadVars, logVars, handlerVars, procState,
                   processList, startedProcs, ures, schedVars, runVars>>

\* for process in self.processList: if process.running(): process.stop()
\* one round of the loop, the stop() of a running process ending as r; and
\* the end of the loop
cleanup_loop(r) ==
    /\ upc = "cleanup"
    /\ IF cidx > Len(processList)
          THEN /\ upc' = "done"
               /\ ures' = UnitResult("cleanup", "returned", "none", 0)
               /\ UNCHANGED <<procState, cidx>>
          ELSE IF procState[processList[cidx]] # "running"
          THEN /\ cidx' = cidx + 1
               /\ UNCHANGED <<procState, upc, ures>>
          ELSE IF r = "returned"
          THEN /\ procState' = [procState EXCEPT ![processList[cidx]] = "exited"]
               /\ cidx' = cidx + 1
               /\ UNCHANGED <<upc, ures>>
          ELSE /\ upc' = "done"
               /\ ures' = UnitResult("cleanup", "ProcessError", r, 0)
               /\ UNCHANGED <<procState, cidx>>
    /\ res' = NoRes
    /\ UNCHANGED <<state, timeout, launchable, pid, exitStatus, outQueue, stdin, lock,
                   child, childEnd, sigPending, stdinPipe, pc, api, cont, rv, retries, tmo,
                   elapsed, exc, wdata, submitted, everFalse, sigAfterExit, outcome,
                   progressVars, pipeVars, threadVars, logVars, handlerVars, processList,
                   startedProcs, schedVars, runVars>>

NextUnit ==
    \/ \E e \in Exprs : assertTrue(e)
    \/ \E e \in Exprs : assertFalse(e)
    \/ \E p \in Procs, st \in {FOREGROUND, BACKGROUND}, r \in StartResults(FOREGROUND) :
          startProcess(p, st, r)
    \/ \E p \in Procs, r \in CallResults : stopProcess(p, r)
    \/ \E p \in Procs, r \in CallResults : signalProcess(p, r)
    \/ \E p \in Procs : process_exit(p)
    \/ cleanup
    \/ \E r \in CallResults : cleanup_loop(r)
    \/ getOutcome_call

(***************************************************************************)
(* The Scheduler (Runner): the test-cycle units, each run by a worker      *)
(* through execute, validate and cleanup, the per-test timeout and the     *)
(* interruption of the run with its bounded grace period.                  *)
(***************************************************************************)
Units == {"u1", "u2"}
UnitStates == {"PENDING", "STARTING", "EXECUTING", "VALIDATING", "CLEANING_UP",
               "COMPLETED", "ABORTED"}
\* a unit a worker has started and not ended
InFlight(u) == unitState[u] \in {"STARTING", "EXECUTING", "VALIDATING", "CLEANING_UP"}
\* how execute or validate can end
PhaseEnds == {"returned", "exception"}
\* the registered result writers, in registration order: the progress
\* writer and the summary writer
Writers == <<"progress", "summary">>
\* the outcomes that make a run fail
FAILS == <<BLOCKED, DUMPEDCORE, TIMEDOUT, FAILED>>

\* the aggregate outcome of a unit: the most severe of its recorded outcomes
UnitOutcome(u) ==
    getOutcome([i \in 1..Len(unitOutcomes[u]) |-> unitOutcomes[u][i][1]])

\* setup(cycles, numTests, threads): self.inprogress = set()
ConsoleProgressResultsWriter_setup(c, n) ==
    /\ cycles' = c
    /\ numTests' = n
    /\ inprogress' = {}

\* id = testObj.descriptor.id
\* if self.cycles > 1: id += ' [CYCLE %02d]'%(cycle+1)
testToDisplay(testObj, cycle) ==
    IF cycles > 1 THEN <<testObj, "CYCLE", cycle + 1>> ELSE testObj

\* self.inprogress.add(self.testToDisplay(testObj, cycle))
ConsoleProgressResultsWriter_processTestStarting(testObj, cycle) ==
    inprogress' = inprogress \cup {testToDisplay(testObj, cycle)}

\* a processResult that removes the test whatever numTests is
ConsoleProgressResultsWriter_processResult_always(testObj, cycle) ==
    inprogress' = inprogress \ {testToDisplay(testObj, cycle)}

\* a processResult that leaves the test in progress
ConsoleProgressResultsWriter_processResult_keep(testObj, cycle) ==
    UNCHANGED inprogress

\* if self.numTests == 1: return
\* self.inprogress.remove(self.testToDisplay(testObj, cycle))
ConsoleProgressResultsWriter_processResult(testObj, cycle) ==
    inprogress' = IF numTests = 1
                     THEN inprogress
                     ELSE inprogress \ {testToDisplay(testObj, cycle)}

\* the times of the run, then printNonPassesSummary: one summary
ConsoleSummaryResultsWriter_cleanup ==
    summaries' = summaries + 1

InitSched ==
    /\ unitState = [u \in Units |-> "PENDING"]
    /\ ran = [u \in Units |-> <<>>]
    /\ interrupted = FALSE
    /\ grace = 0
    /\ threads = 1
    /\ idle = 0
    /\ unitOutcomes = [u \in Units |-> <<>>]
    /\ thrown = {}
    /\ cancelReq = [u \in Units |-> FALSE]
    /\ procs = [u \in Units |-> "none"]
    /\ outDirs = {}
    /\ inprogress = {}
    /\ cycles = 0
    /\ numTests = 0
    /\ pwStarted = {}
    /\ pwProcessed = {}
    /\ calls = {}
    /\ reported = [u \in Units |-> 0]
    /\ rpc = "created"
    /\ wcleanup = [w \in Range(Writers) |-> "no"]
    /\ summaries = 0
    /\ cleanedUp = FALSE
    /\ exitCode = None

\* the run starts with a pool of n workers; the writers are set up by the
\* main thread
runner_start(n) ==
    /\ rpc = "created"
    /\ threads' = n
    /\ idle' = n
    /\ ConsoleProgressResultsWriter_setup(1, Cardinality(Units))
    /\ rpc' = "running"
    /\ res' = NoRes
    /\ UNCHANGED <<state, timeout, launchable, pid, exitStatus, outQueue, stdin, lock,
                   child, childEnd, sigPending, stdinPipe, pc, api, cont, rv, retries, tmo,
                   elapsed, exc, wdata, submitted, everFalse, sigAfterExit, outcome,
                   pwStarted, pwProcessed, pipeVars, threadVars, logVars, handlerVars,
                   unitVars, schedVars, unitOutcomes, thrown, cancelReq, procs, outDirs,
                   calls, reported, wcleanup, summaries, cleanedUp, exitCode>>

\* a pool that hands a unit to a worker it does not have
dispatch_unbounded(u) ==
    /\ rpc = "running"
    /\ unitState[u] = "PENDING"
    /\ ~interrupted
    /\ unitState' = [unitState EXCEPT ![u] = "STARTING"]
    /\ idle' = idle - 1
    /\ outDirs' = outDirs \cup {u}
    /\ ConsoleProgressResultsWriter_processTestStarting(u, 0)
    /\ res' = NoRes
    /\ UNCHANGED <<state, timeout, launchable, pid, exitStatus, outQueue, stdin, lock,
                   child, childEnd, sigPending, stdinPipe, pc, api, cont, rv, retries, tmo,
                   elapsed, exc, wdata, submitted, everFalse, sigAfterExit, outcome,
                   progressVars, pipeVars, threadVars, logVars, handlerVars, unitVars, ran,
                   interrupted, grace, threads, unitOutcomes, thrown, cancelReq, procs,
                   calls, reported, rpc, wcleanup, summaries, cleanedUp, exitCode>>

\* a pool that goes on dispatching after the interruption
dispatch_interrupted(u) ==
    /\ rpc = "running"
    /\ unitState[u] = "PENDING"
    /\ idle > 0
    /\ threads = 1 =>
          \A v \in Units :
              unitState[v] = "PENDING" \/ reported[v] = Len(Writers)
    /\ unitState' = [unitState EXCEPT ![u] = "STARTING"]
    /\ idle' = idle - 1
    /\ outDirs' = outDirs \cup {u}
    /\ ConsoleProgressResultsWriter_processTestStarting(u, 0)
    /\ res' = NoRes
    /\ UNCHANGED <<state, timeout, launchable, pid, exitStatus, outQueue, stdin, lock,
                   child, childEnd, sigPending, stdinPipe, pc, api, cont, rv, retries, tmo,
                   elapsed, exc, wdata, submitted, everFalse, sigAfterExit, outcome,
                   progressVars, pipeVars, threadVars, logVars, handlerVars, unitVars, ran,
                   interrupted, grace, threads, unitOutcomes, thrown, cancelReq, procs,
                   calls, reported, rpc, wcleanup, summaries, cleanedUp, exitCode>>

\* an idle worker pulls a pending unit from the queue, creates its output
\* directory and tells the writers that it is starting; none is dispatched
\* once interruption is requested, and a pool of one thread reports the
\* result of a unit before it takes the next
dispatch(u) ==
    /\ rpc = "running"
    /\ unitState[u] = "PENDING"
    /\ ~interrupted
    /\ idle > 0
    /\ threads = 1 =>
          \A v \in Units :
              unitState[v] = "PENDING" \/ reported[v] = Len(Writers)
    /\ unitState' = [unitState EXCEPT ![u] = "STARTING"]
    /\ idle' = idle - 1
    /\ outDirs' = outDirs \cup {u}
    /\ ConsoleProgressResultsWriter_processTestStarting(u, 0)
    /\ res' = NoRes
    /\ UNCHANGED <<state, timeout, launchable, pid, exitStatus, outQueue, stdin, lock,
                   child, childEnd, sigPending, stdinPipe, pc, api, cont, rv, retries, tmo,
                   elapsed, exc, wdata, submitted, everFalse, sigAfterExit, outcome,
                   progressVars, pipeVars, threadVars, logVars, handlerVars, unitVars, ran,
                   interrupted, grace, threads, unitOutcomes, thrown, cancelReq, procs,
                   calls, reported, rpc, wcleanup, summaries, cleanedUp, exitCode>>

\* the worker begins execute, which starts a process and registers it
unit_start(u) ==
    /\ unitState[u] = "STARTING"
    /\ unitState' = [unitState EXCEPT ![u] = "EXECUTING"]
    /\ procs' = [procs EXCEPT ![u] = "running"]
    /\ res' = NoRes
    /\ UNCHANGED <<state, timeout, launchable, pid, exitStatus, outQueue, stdin, lock,
                   child, childEnd, sigPending, stdinPipe, pc, api, cont, rv, retries, tmo,
                   elapsed, exc, wdata, submitted, everFalse, sigAfterExit, outcome,
                   progressVars, pipeVars, threadVars, logVars, handlerVars, unitVars, ran,
                   interrupted, grace, threads, idle, unitOutcomes, thrown, cancelReq,
                   outDirs, inprogress, calls, reported, rpc, wcleanup, summaries,
                   cleanedUp, exitCode>>

\* the unit records an outcome of its own during execute or validate
unit_addOutcome(u, o) ==
    /\ unitState[u] \in {"EXECUTING", "VALIDATING"}
    /\ unitOutcomes[u] = <<>>
    /\ unitOutcomes' = [unitOutcomes EXCEPT ![u] = Append(@, <<o, "test">>)]
    /\ res' = NoRes
    /\ UNCHANGED <<state, timeout, launchable, pid, exitStatus, outQueue, stdin, lock,
                   child, childEnd, sigPending, stdinPipe, pc, api, cont, rv, retries, tmo,
                   elapsed, exc, wdata, submitted, everFalse, sigAfterExit, outcome,
                   progressVars, pipeVars, threadVars, logVars, handlerVars, unitVars,
                   schedVars, threads, idle, thrown, cancelReq, procs, outDirs, inprogress,
                   calls, reported, rpc, wcleanup, summaries, cleanedUp, exitCode>>

\* a worker without the finalization: an exception of execute ends the unit
unit_execute_unguarded(u, how) ==
    /\ unitState[u] = "EXECUTING"
    /\ ran' = [ran EXCEPT ![u] = Append(@, "execute")]
    /\ unitState' = [unitState EXCEPT
          ![u] = IF how = "returned" THEN "VALIDATING" ELSE "COMPLETED"]
    /\ unitOutcomes' = [unitOutcomes EXCEPT
          ![u] = IF how = "returned" THEN @ ELSE Append(@, <<BLOCKED, "exception">>)]
    /\ thrown' = IF how = "returned" THEN thrown ELSE thrown \cup {u}
    /\ idle' = IF how = "returned" THEN idle ELSE idle + 1
    /\ res' = NoRes
    /\ UNCHANGED <<state, timeout, launchable, pid, exitStatus, outQueue, stdin, lock,
                   child, childEnd, sigPending, stdinPipe, pc, api, cont, rv, retries, tmo,
                   elapsed, exc, wdata, submitted, everFalse, sigAfterExit, outcome,
                   progressVars, pipeVars, threadVars, logVars, handlerVars, unitVars,
                   interrupted, grace, threads, cancelReq, procs, outDirs, inprogress,
                   calls, reported, rpc, wcleanup, summaries, cleanedUp, exitCode>>

\* a worker that an exception of execute terminates
unit_execute_fatal(u, how) ==
    /\ unitState[u] = "EXECUTING"
    /\ ran' = [ran EXCEPT ![u] = Append(@, "execute")]
    /\ unitState' = [unitState EXCEPT
          ![u] = IF how = "returned" THEN "VALIDATING" ELSE "CLEANING_UP"]
    /\ unitOutcomes' = [unitOutcomes EXCEPT
          ![u] = IF how = "returned" THEN @ ELSE Append(@, <<BLOCKED, "exception">>)]
    /\ thrown' = IF how = "returned" THEN thrown ELSE thrown \cup {u}
    /\ idle' = IF how = "returned" THEN idle ELSE idle - 1
    /\ res' = NoRes
    /\ UNCHANGED <<state, timeout, launchable, pid, exitStatus, outQueue, stdin, lock,
                   child, childEnd, sigPending, stdinPipe, pc, api, cont, rv, retries, tmo,
                   elapsed, exc, wdata, submitted, everFalse, sigAfterExit, outcome,
                   progressVars, pipeVars, threadVars, logVars, handlerVars, unitVars,
                   interrupted, grace, threads, cancelReq, procs, outDirs, inprogress,
                   calls, reported, rpc, wcleanup, summaries, cleanedUp, exitCode>>

\* execute ends: validate is next; an exception is recorded as BLOCKED
\* with its message, and cleanup is next
unit_execute(u, how) ==
    /\ unitState[u] = "EXECUTING"
    /\ ran' = [ran EXCEPT ![u] = Append(@, "execute")]
    /\ unitState' = [unitState EXCEPT
          ![u] = IF how = "returned" THEN "VALIDATING" ELSE "CLEANING_UP"]
    /\ unitOutcomes' = [unitOutcomes EXCEPT
          ![u] = IF how = "returned" THEN @ ELSE Append(@, <<BLOCKED, "exception">>)]
    /\ thrown' = IF how = "returned" THEN thrown ELSE thrown \cup {u}
    /\ res' = NoRes
    /\ UNCHANGED <<state, timeout, launchable, pid, exitStatus, outQueue, stdin, lock,
                   child, childEnd, sigPending, stdinPipe, pc, api, cont, rv, retries, tmo,
                   elapsed, exc, wdata, submitted, everFalse, sigAfterExit, outcome,
                   progressVars, pipeVars, threadVars, logVars, handlerVars, unitVars,
                   interrupted, grace, threads, idle, cancelReq, procs, outDirs,
                   inprogress, calls, reported, rpc, wcleanup, summaries, cleanedUp,
                   exitCode>>

\* validate ends: cleanup is next, also after an exception, which is
\* recorded as BLOCKED with its message
unit_validate(u, how) ==
    /\ unitState[u] = "VALIDATING"
    /\ ran' = [ran EXCEPT ![u] = Append(@, "validate")]
    /\ unitState' = [unitState EXCEPT ![u] = "CLEANING_UP"]
    /\ unitOutcomes' = [unitOutcomes EXCEPT
          ![u] = IF how = "returned" THEN @ ELSE Append(@, <<BLOCKED, "exception">>)]
    /\ thrown' = IF how = "returned" THEN thrown ELSE thrown \cup {u}
    /\ res' = NoRes
    /\ UNCHANGED <<state, timeout, launchable, pid, exitStatus, outQueue, stdin, lock,
                   child, childEnd, sigPending, stdinPipe, pc, api, cont, rv, retries, tmo,
                   elapsed, exc, wdata, submitted, everFalse, sigAfterExit, outcome,
                   progressVars, pipeVars, threadVars, logVars, handlerVars, unitVars,
                   interrupted, grace, threads, idle, cancelReq, procs, outDirs,
                   inprogress, calls, reported, rpc, wcleanup, summaries, cleanedUp,
                   exitCode>>

\* a timeout that leaves the processes of the unit running
unit_timeout_lenient(u) ==
    /\ unitState[u] \in {"EXECUTING", "VALIDATING"}
    /\ ~interrupted
    /\ ran' = [ran EXCEPT ![u] =
          Append(@, IF unitState[u] = "EXECUTING" THEN "execute" ELSE "validate")]
    /\ unitState' = [unitState EXCEPT ![u] = "CLEANING_UP"]
    /\ cancelReq' = [cancelReq EXCEPT ![u] = TRUE]
    /\ unitOutcomes' = [unitOutcomes EXCEPT ![u] = Append(@, <<TIMEDOUT, "timeout">>)]
    /\ res' = NoRes
    /\ UNCHANGED <<state, timeout, launchable, pid, exitStatus, outQueue, stdin, lock,
                   child, childEnd, sigPending, stdinPipe, pc, api, cont, rv, retries, tmo,
                   elapsed, exc, wdata, submitted, everFalse, sigAfterExit, outcome,
                   progressVars, pipeVars, threadVars, logVars, handlerVars, unitVars,
                   interrupted, grace, threads, idle, thrown, procs, outDirs, inprogress,
                   calls, reported, rpc, wcleanup, summaries, cleanedUp, exitCode>>

\* the per-test timeout trips during execute or validate: the unit's
\* cancellation is requested, the processes it registered are force-stopped,
\* TIMEDOUT is recorded and its cleanup is still run
unit_timeout(u) ==
    /\ unitState[u] \in {"EXECUTING", "VALIDATING"}
    /\ ~interrupted
    /\ ran' = [ran EXCEPT ![u] =
          Append(@, IF unitState[u] = "EXECUTING" THEN "execute" ELSE "validate")]
    /\ unitState' = [unitState EXCEPT ![u] = "CLEANING_UP"]
    /\ cancelReq' = [cancelReq EXCEPT ![u] = TRUE]
    /\ procs' = [procs EXCEPT ![u] = IF @ = "running" THEN "stopped" ELSE @]
    /\ unitOutcomes' = [unitOutcomes EXCEPT ![u] = Append(@, <<TIMEDOUT, "timeout">>)]
    /\ res' = NoRes
    /\ UNCHANGED <<state, timeout, launchable, pid, exitStatus, outQueue, stdin, lock,
                   child, childEnd, sigPending, stdinPipe, pc, api, cont, rv, retries, tmo,
                   elapsed, exc, wdata, submitted, everFalse, sigAfterExit, outcome,
                   progressVars, pipeVars, threadVars, logVars, handlerVars, unitVars,
                   interrupted, grace, threads, idle, thrown, outDirs, inprogress, calls,
                   reported, rpc, wcleanup, summaries, cleanedUp, exitCode>>

\* an in-flight unit notices the cancellation requested by the interruption
\* and goes to its cleanup
unit_cancel(u) ==
    /\ interrupted
    /\ unitState[u] \in {"STARTING", "EXECUTING", "VALIDATING"}
    /\ ran' = [ran EXCEPT ![u] =
          IF unitState[u] = "STARTING" THEN @
          ELSE Append(@, IF unitState[u] = "EXECUTING" THEN "execute" ELSE "validate")]
    /\ unitState' = [unitState EXCEPT ![u] = "CLEANING_UP"]
    /\ res' = NoRes
    /\ UNCHANGED <<state, timeout, launchable, pid, exitStatus, outQueue, stdin, lock,
                   child, childEnd, sigPending, stdinPipe, pc, api, cont, rv, retries, tmo,
                   elapsed, exc, wdata, submitted, everFalse, sigAfterExit, outcome,
                   progressVars, pipeVars, threadVars, logVars, handlerVars, unitVars,
                   interrupted, grace, runVars>>

\* cleanup ends, the processes of the unit stopped and its worker back in
\* the pool: the unit is completed, or aborted and recorded as BLOCKED when
\* the run is interrupted
unit_cleanup(u) ==
    /\ unitState[u] = "CLEANING_UP"
    /\ ran' = [ran EXCEPT ![u] = Append(@, "cleanup")]
    /\ unitState' = [unitState EXCEPT
          ![u] = IF interrupted THEN "ABORTED" ELSE "COMPLETED"]
    /\ procs' = [procs EXCEPT ![u] = IF @ = "running" THEN "stopped" ELSE @]
    /\ unitOutcomes' = [unitOutcomes EXCEPT
          ![u] = IF interrupted THEN Append(@, <<BLOCKED, "interruption">>) ELSE @]
    /\ idle' = idle + 1
    /\ res' = NoRes
    /\ UNCHANGED <<state, timeout, launchable, pid, exitStatus, outQueue, stdin, lock,
                   child, childEnd, sigPending, stdinPipe, pc, api, cont, rv, retries, tmo,
                   elapsed, exc, wdata, submitted, everFalse, sigAfterExit, outcome,
                   progressVars, pipeVars, threadVars, logVars, handlerVars, unitVars,
                   interrupted, grace, threads, thrown, cancelReq, outDirs, inprogress,
                   calls, reported, rpc, wcleanup, summaries, cleanedUp, exitCode>>

\* the operator's abort signal, before the run is complete: the
\* cancellation of every in-flight unit is requested
interrupt ==
    /\ rpc = "running"
    /\ ~interrupted
    /\ \E u \in Units : unitState[u] \notin {"COMPLETED", "ABORTED"}
    /\ interrupted' = TRUE
    /\ cancelReq' = [u \in Units |-> cancelReq[u] \/ InFlight(u)]
    /\ res' = NoRes
    /\ UNCHANGED <<state, timeout, launchable, pid, exitStatus, outQueue, stdin, lock,
                   child, childEnd, sigPending, stdinPipe, pc, api, cont, rv, retries, tmo,
                   elapsed, exc, wdata, submitted, everFalse, sigAfterExit, outcome,
                   progressVars, pipeVars, threadVars, logVars, handlerVars, unitVars,
                   unitState, ran, grace, threads, idle, unitOutcomes, thrown, procs,
                   outDirs, inprogress, calls, reported, rpc, wcleanup, summaries,
                   cleanedUp, exitCode>>

\* the Scheduler waits for the in-flight units, for a bounded time
grace_wait ==
    /\ interrupted
    /\ \E u \in Units : InFlight(u)
    /\ grace < MaxGrace
    /\ grace' = grace + 1
    /\ res' = NoRes
    /\ UNCHANGED <<state, timeout, launchable, pid, exitStatus, outQueue, stdin, lock,
                   child, childEnd, sigPending, stdinPipe, pc, api, cont, rv, retries, tmo,
                   elapsed, exc, wdata, submitted, everFalse, sigAfterExit, outcome,
                   progressVars, pipeVars, threadVars, logVars, handlerVars, unitVars,
                   unitState, ran, interrupted, runVars>>

\* a forced abort that records no outcome
force_abort_silent(u) ==
    /\ interrupted
    /\ grace = MaxGrace
    /\ InFlight(u)
    /\ unitState' = [unitState EXCEPT ![u] = "ABORTED"]
    /\ res' = NoRes
    /\ UNCHANGED <<state, timeout, launchable, pid, exitStatus, outQueue, stdin, lock,
                   child, childEnd, sigPending, stdinPipe, pc, api, cont, rv, retries, tmo,
                   elapsed, exc, wdata, submitted, everFalse, sigAfterExit, outcome,
                   progressVars, pipeVars, threadVars, logVars, handlerVars, unitVars, ran,
                   interrupted, grace, runVars>>

\* the grace period is over: a unit that has not ended is recorded as
\* BLOCKED, terminated early due to interruption
force_abort(u) ==
    /\ interrupted
    /\ grace = MaxGrace
    /\ InFlight(u)
    /\ unitState' = [unitState EXCEPT ![u] = "ABORTED"]
    /\ unitOutcomes' = [unitOutcomes EXCEPT ![u] = Append(@, <<BLOCKED, "interruption">>)]
    /\ res' = NoRes
    /\ UNCHANGED <<state, timeout, launchable, pid, exitStatus, outQueue, stdin, lock,
                   child, childEnd, sigPending, stdinPipe, pc, api, cont, rv, retries, tmo,
                   elapsed, exc, wdata, submitted, everFalse, sigAfterExit, outcome,
                   progressVars, pipeVars, threadVars, logVars, handlerVars, unitVars, ran,
                   interrupted, grace, threads, idle, thrown, cancelReq, procs, outDirs,
                   inprogress, calls, reported, rpc, wcleanup, summaries, cleanedUp,
                   exitCode>>

\* a result handed to the writers by the worker of the unit, whatever the
\* other threads are doing
processResult_worker(u) ==
    /\ rpc = "running"
    /\ unitState[u] \in {"COMPLETED", "ABORTED"}
    /\ reported[u] < Len(Writers)
    /\ \A c \in calls : c.unit # u
    /\ calls' = calls \cup {[thread |-> "worker", method |-> "processResult",
                             unit |-> u, writer |-> Writers[reported[u] + 1]]}
    /\ IF Writers[reported[u] + 1] = "progress"
       THEN ConsoleProgressResultsWriter_processResult(u, 0)
       ELSE UNCHANGED inprogress
    /\ res' = NoRes
    /\ UNCHANGED <<state, timeout, launchable, pid, exitStatus, outQueue, stdin, lock,
                   child, childEnd, sigPending, stdinPipe, pc, api, cont, rv, retries, tmo,
                   elapsed, exc, wdata, submitted, everFalse, sigAfterExit, outcome,
                   progressVars, pipeVars, threadVars, logVars, handlerVars, unitVars,
                   schedVars, threads, idle, unitOutcomes, thrown, cancelReq, procs,
                   outDirs, reported, rpc, wcleanup, summaries, cleanedUp, exitCode>>

\* the main thread takes the result of an ended unit and calls
\* processResult of the next writer in registration order, one call at a
\* time and one unit at a time
processResult(u) ==
    /\ rpc = "running"
    /\ unitState[u] \in {"COMPLETED", "ABORTED"}
    /\ reported[u] < Len(Writers)
    /\ calls = {}
    /\ \A v \in Units \ {u} : reported[v] \in {0, Len(Writers)}
    /\ calls' = {[thread |-> MainThread, method |-> "processResult",
                  unit |-> u, writer |-> Writers[reported[u] + 1]]}
    /\ IF Writers[reported[u] + 1] = "progress"
       THEN ConsoleProgressResultsWriter_processResult(u, 0)
       ELSE UNCHANGED inprogress
    /\ res' = NoRes
    /\ UNCHANGED <<state, timeout, launchable, pid, exitStatus, outQueue, stdin, lock,
                   child, childEnd, sigPending, stdinPipe, pc, api, cont, rv, retries, tmo,
                   elapsed, exc, wdata, submitted, everFalse, sigAfterExit, outcome,
                   progressVars, pipeVars, threadVars, logVars, handlerVars, unitVars,
                   schedVars, threads, idle, unitOutcomes, thrown, cancelReq, procs,
                   outDirs, reported, rpc, wcleanup, summaries, cleanedUp, exitCode>>

\* the processResult call returns
processResult_return(u) ==
    /\ \E c \in calls : c.unit = u
    /\ calls' = {c \in calls : c.unit # u}
    /\ reported' = [reported EXCEPT ![u] = @ + 1]
    /\ res' = NoRes
    /\ UNCHANGED <<state, timeout, launchable, pid, exitStatus, outQueue, stdin, lock,
                   child, childEnd, sigPending, stdinPipe, pc, api, cont, rv, retries, tmo,
                   elapsed, exc, wdata, submitted, everFalse, sigAfterExit, outcome,
                   progressVars, pipeVars, threadVars, logVars, handlerVars, unitVars,
                   schedVars, threads, idle, unitOutcomes, thrown, cancelReq, procs,
                   outDirs, inprogress, rpc, wcleanup, summaries, cleanedUp, exitCode>>

\* every unit has ended and its result is reported, or is left pending by
\* the interruption: the writers are cleaned up next
run_complete ==
    /\ rpc = "running"
    /\ calls = {}
    /\ \A u \in Units :
          \/ unitState[u] \in {"COMPLETED", "ABORTED"} /\ reported[u] = Len(Writers)
          \/ unitState[u] = "PENDING" /\ interrupted
    /\ rpc' = "writers"
    /\ res' = NoRes
    /\ UNCHANGED <<state, timeout, launchable, pid, exitStatus, outQueue, stdin, lock,
                   child, childEnd, sigPending, stdinPipe, pc, api, cont, rv, retries, tmo,
                   elapsed, exc, wdata, submitted, everFalse, sigAfterExit, outcome,
                   progressVars, pipeVars, threadVars, logVars, handlerVars, unitVars,
                   schedVars, threads, idle, unitOutcomes, thrown, cancelReq, procs,
                   outDirs, inprogress, calls, reported, wcleanup, summaries, cleanedUp,
                   exitCode>>

\* a runner that a failing writer cleanup stops
writer_cleanup_escalating(w, ok) ==
    /\ rpc = "writers"
    /\ \E i \in 1..Len(Writers) :
          /\ Writers[i] = w
          /\ wcleanup[w] = "no"
          /\ \A j \in 1..(i - 1) : wcleanup[Writers[j]] # "no"
          /\ rpc' = IF i = Len(Writers) \/ ~ok THEN "cleanup" ELSE "writers"
    /\ w = "summary" => ok
    /\ wcleanup' = [wcleanup EXCEPT ![w] = IF ok THEN "ok" ELSE "warned"]
    /\ IF w = "summary"
       THEN ConsoleSummaryResultsWriter_cleanup
       ELSE UNCHANGED summaries
    /\ res' = NoRes
    /\ UNCHANGED <<state, timeout, launchable, pid, exitStatus, outQueue, stdin, lock,
                   child, childEnd, sigPending, stdinPipe, pc, api, cont, rv, retries, tmo,
                   elapsed, exc, wdata, submitted, everFalse, sigAfterExit, outcome,
                   progressVars, pipeVars, threadVars, logVars, handlerVars, unitVars,
                   schedVars, threads, idle, unitOutcomes, thrown, cancelReq, procs,
                   outDirs, inprogress, calls, reported, cleanedUp, exitCode>>

\* a runner that prints the summary only of a run that was not interrupted
writer_cleanup_quiet(w, ok) ==
    /\ rpc = "writers"
    /\ \E i \in 1..Len(Writers) :
          /\ Writers[i] = w
          /\ wcleanup[w] = "no"
          /\ \A j \in 1..(i - 1) : wcleanup[Writers[j]] # "no"
          /\ rpc' = IF i = Len(Writers) THEN "cleanup" ELSE "writers"
    /\ w = "summary" => ok
    /\ wcleanup' = [wcleanup EXCEPT ![w] = IF ok THEN "ok" ELSE "warned"]
    /\ IF w = "summary" /\ ~interrupted
       THEN ConsoleSummaryResultsWriter_cleanup
       ELSE UNCHANGED summaries
    /\ res' = NoRes
    /\ UNCHANGED <<state, timeout, launchable, pid, exitStatus, outQueue, stdin, lock,
                   child, childEnd, sigPending, stdinPipe, pc, api, cont, rv, retries, tmo,
                   elapsed, exc, wdata, submitted, everFalse, sigAfterExit, outcome,
                   progressVars, pipeVars, threadVars, logVars, handlerVars, unitVars,
                   schedVars, threads, idle, unitOutcomes, thrown, cancelReq, procs,
                   outDirs, inprogress, calls, reported, cleanedUp, exitCode>>

\* the cleanup of the next writer in registration order is called; one
\* that fails is logged as a warning and the next writer is gone on to.
\* The cleanup of the summary writer only logs the summary
writer_cleanup(w, ok) ==
    /\ rpc = "writers"
    /\ \E i \in 1..Len(Writers) :
          /\ Writers[i] = w
          /\ wcleanup[w] = "no"
          /\ \A j \in 1..(i - 1) : wcleanup[Writers[j]] # "no"
          /\ rpc' = IF i = Len(Writers) THEN "cleanup" ELSE "writers"
    /\ w = "summary" => ok
    /\ wcleanup' = [wcleanup EXCEPT ![w] = IF ok THEN "ok" ELSE "warned"]
    /\ IF w = "summary"
       THEN ConsoleSummaryResultsWriter_cleanup
       ELSE UNCHANGED summaries
    /\ res' = NoRes
    /\ UNCHANGED <<state, timeout, launchable, pid, exitStatus, outQueue, stdin, lock,
                   child, childEnd, sigPending, stdinPipe, pc, api, cont, rv, retries, tmo,
                   elapsed, exc, wdata, submitted, everFalse, sigAfterExit, outcome,
                   progressVars, pipeVars, threadVars, logVars, handlerVars, unitVars,
                   schedVars, threads, idle, unitOutcomes, thrown, cancelReq, procs,
                   outDirs, inprogress, calls, reported, cleanedUp, exitCode>>

\* the runner's own top-level cleanup hook
runner_cleanup ==
    /\ rpc = "cleanup"
    /\ cleanedUp' = TRUE
    /\ rpc' = "exit"
    /\ res' = NoRes
    /\ UNCHANGED <<state, timeout, launchable, pid, exitStatus, outQueue, stdin, lock,
                   child, childEnd, sigPending, stdinPipe, pc, api, cont, rv, retries, tmo,
                   elapsed, exc, wdata, submitted, everFalse, sigAfterExit, outcome,
                   progressVars, pipeVars, threadVars, logVars, handlerVars, unitVars,
                   schedVars, threads, idle, unitOutcomes, thrown, cancelReq, procs,
                   outDirs, inprogress, calls, reported, wcleanup, summaries, exitCode>>

\* an exit code that only the outcomes decide
run_exit_outcomes ==
    /\ rpc = "exit"
    /\ exitCode' = Some(IF \E u \in Units : UnitOutcome(u) \in Range(FAILS)
                        THEN 1 ELSE 0)
    /\ rpc' = "exited"
    /\ res' = NoRes
    /\ UNCHANGED <<state, timeout, launchable, pid, exitStatus, outQueue, stdin, lock,
                   child, childEnd, sigPending, stdinPipe, pc, api, cont, rv, retries, tmo,
                   elapsed, exc, wdata, submitted, everFalse, sigAfterExit, outcome,
                   progressVars, pipeVars, threadVars, logVars, handlerVars, unitVars,
                   schedVars, threads, idle, unitOutcomes, thrown, cancelReq, procs,
                   outDirs, inprogress, calls, reported, wcleanup, summaries, cleanedUp>>

\* the run exits: with a non-zero code when the aggregate outcome of a unit
\* is a failing one or the run was aborted
run_exit ==
    /\ rpc = "exit"
    /\ exitCode' = Some(IF interrupted \/ \E u \in Units : UnitOutcome(u) \in Range(FAILS)
                        THEN 1 ELSE 0)
    /\ rpc' = "exited"
    /\ res' = NoRes
    /\ UNCHANGED <<state, timeout, launchable, pid, exitStatus, outQueue, stdin, lock,
                   child, childEnd, sigPending, stdinPipe, pc, api, cont, rv, retries, tmo,
                   elapsed, exc, wdata, submitted, everFalse, sigAfterExit, outcome,
                   progressVars, pipeVars, threadVars, logVars, handlerVars, unitVars,
                   schedVars, threads, idle, unitOutcomes, thrown, cancelReq, procs,
                   outDirs, inprogress, calls, reported, wcleanup, summaries, cleanedUp>>

NextSched ==
    \/ \E n \in 1..MaxThreads : runner_start(n)
    \/ \E u \in Units : dispatch(u)
    \/ \E u \in Units : unit_start(u)
    \/ \E u \in Units, o \in {SKIPPED, FAILED} : unit_addOutcome(u, o)
    \/ \E u \in Units, how \in PhaseEnds : unit_execute(u, how)
    \/ \E u \in Units, how \in PhaseEnds : unit_validate(u, how)
    \/ \E u \in Units : unit_timeout(u)
    \/ \E u \in Units : unit_cancel(u)
    \/ \E u \in Units : unit_cleanup(u)
    \/ interrupt
    \/ grace_wait
    \/ \E u \in Units : force_abort(u)
    \/ \E u \in Units : processResult(u)
    \/ \E u \in Units : processResult_return(u)
    \/ run_complete
    \/ \E w \in Range(Writers), ok \in BOOLEAN : writer_cleanup(w, ok)
    \/ runner_cleanup
    \/ run_exit

(***************************************************************************)
(* The specifications                                                      *)
(***************************************************************************)
\* the parts of the state a specification leaves alone
ThreadUnused ==
    /\ InitThread /\ joinTimeoutSecs = 1 /\ owner = "worker1"
    /\ InitLog
    /\ InitHandlers
    /\ InitUnit
    /\ InitSched

\* one process handle: its two caller threads starting, polling, waiting for
\* and stopping the process, its writer thread and its child
Init == InitProc /\ InitOutcome /\ ThreadUnused
Spec == Init /\ [][Next]_vars

\* one BACKGROUND process handle whose stdin is written to
InitStdin ==
    /\ InitProc
    /\ state = BACKGROUND
    /\ launchable
    /\ InitOutcome
    /\ ThreadUnused
SpecStdin == InitStdin /\ [][NextStdin]_vars

\* the same handle, polled, stopped and written to
SpecPipe == InitStdin /\ [][NextPipe]_vars

\* The writer thread is scheduled: each of its steps that stays possible is
\* taken, and it gets the lock that is free again and again.  A thread that
\* holds the lock goes on until it has released it.  The waitpid of a child
\* that is a zombie does not raise ECHILD for ever.
WriterFairness ==
    /\ WF_vars(writeStdin_loop)
    /\ WF_vars(writeStdin_get)
    /\ WF_vars(writeStdin_running)
    /\ SF_vars(writeStdin_acquire)
    /\ WF_vars(writeStdin_write)
    /\ SF_vars(setExitStatus_enter(Writer))
    /\ SF_vars(setExitStatus_waitpid(Writer) /\ child' = "reaped")
    /\ \A t \in Threads : WF_vars(setExitStatus_waitpid(t))
    /\ \A t \in Threads : WF_vars(setExitStatus_close(t))
SpecWriterFair == InitStdin /\ [][NextWriter]_vars /\ WriterFairness

\* a process handle that is never started, beside a test's outcome list
InitOutcomes ==
    /\ InitProc
    /\ state = BACKGROUND
    /\ launchable
    /\ InitOutcome
    /\ ThreadUnused
SpecOutcome == InitOutcomes /\ [][NextOutcome]_vars

\* a process handle that is never started, beside one background thread of
\* a test, its owner and the log handlers of the threads
InitThreads ==
    /\ InitProc
    /\ state = BACKGROUND
    /\ launchable
    /\ InitOutcome
    /\ InitThread
    /\ InitLog
    /\ InitHandlers
    /\ InitUnit
    /\ InitSched
SpecThread == InitThreads /\ [][NextThread]_vars

\* the same, with the workers logging and the thread never joined
SpecLog == InitThreads /\ [][NextLog]_vars

\* the main thread, two workers and a background thread, logging through
\* the root logger and its thread-scoped handlers
InitLogging ==
    /\ InitProc
    /\ state = BACKGROUND
    /\ launchable
    /\ InitOutcome
    /\ ThreadUnused
SpecHandlers == InitLogging /\ [][NextHandlers]_vars

\* one test: its assertions, its processes and its cleanup
SpecUnit == InitLogging /\ [][NextUnit]_vars

\* the Scheduler running two units
SpecSched == InitLogging /\ [][NextSched]_vars

(***************************************************************************)
(* One ConsoleProgressResultsWriter and the calls a run makes of it: setup *)
(* with the run's cycles and number of tests, then for each unit of the    *)
(* run processTestStarting and, after it, processResult.                   *)
(***************************************************************************)
\* the units of the run: numTests is cycles times the number of test ids
RunUnits == (1..(numTests \div cycles)) \X (0..(cycles - 1))

progress_setup(c, n) ==
    /\ numTests = 0
    /\ n % c = 0
    /\ ConsoleProgressResultsWriter_setup(c, n)
    /\ res' = NoRes
    /\ UNCHANGED <<state, timeout, launchable, pid, exitStatus, outQueue, stdin, lock,
                   child, childEnd, sigPending, stdinPipe, pc, api, cont, rv, retries, tmo,
                   elapsed, exc, wdata, submitted, everFalse, sigAfterExit, outcome,
                   pwStarted, pwProcessed, pipeVars, threadVars, logVars, handlerVars,
                   unitVars, schedVars, threads, idle, unitOutcomes, thrown, cancelReq,
                   procs, outDirs, calls, reported, rpc, wcleanup, summaries, cleanedUp,
                   exitCode>>

progress_testStarting(testObj, cycle) ==
    /\ numTests > 0
    /\ <<testObj, cycle>> \in RunUnits \ pwStarted
    /\ ConsoleProgressResultsWriter_processTestStarting(testObj, cycle)
    /\ pwStarted' = pwStarted \cup {<<testObj, cycle>>}
    /\ res' = NoRes
    /\ UNCHANGED <<state, timeout, launchable, pid, exitStatus, outQueue, stdin, lock,
                   child, childEnd, sigPending, stdinPipe, pc, api, cont, rv, retries, tmo,
                   elapsed, exc, wdata, submitted, everFalse, sigAfterExit, outcome,
                   cycles, numTests, pwProcessed, pipeVars, threadVars, logVars,
                   handlerVars, unitVars, schedVars, threads, idle, unitOutcomes, thrown,
                   cancelReq, procs, outDirs, calls, reported, rpc, wcleanup, summaries,
                   cleanedUp, exitCode>>

progress_result(testObj, cycle) ==
    /\ <<testObj, cycle>> \in pwStarted \ pwProcessed
    /\ ConsoleProgressResultsWriter_processResult(testObj, cycle)
    /\ pwProcessed' = pwProcessed \cup {<<testObj, cycle>>}
    /\ res' = NoRes
    /\ UNCHANGED <<state, timeout, launchable, pid, exitStatus, outQueue, stdin, lock,
                   child, childEnd, sigPending, stdinPipe, pc, api, cont, rv, retries, tmo,
                   elapsed, exc, wdata, submitted, everFalse, sigAfterExit, outcome,
                   cycles, numTests, pwStarted, pipeVars, threadVars, logVars, handlerVars,
                   unitVars, schedVars, threads, idle, unitOutcomes, thrown, cancelReq,
                   procs, outDirs, calls, reported, rpc, wcleanup, summaries, cleanedUp,
                   exitCode>>

NextProgress ==
    \/ \E c \in 1..MaxCycles, n \in 1..MaxTests : progress_setup(c, n)
    \/ \E testObj \in 1..MaxTests, cycle \in 0..(MaxCycles - 1) :
          progress_testStarting(testObj, cycle)
    \/ \E testObj \in 1..MaxTests, cycle \in 0..(MaxCycles - 1) :
          progress_result(testObj, cycle)

SpecProgress == InitLogging /\ [][NextProgress]_vars

(***************************************************************************)
(* The properties                                                          *)
(***************************************************************************)
Flatten(chunks) ==
    LET RECURSIVE F(_)
        F(s) == IF s = <<>> THEN <<>> ELSE Head(s) \o F(Tail(s))
    IN F(chunks)

\* the step is one of thread t
StepBy(t) ==
    pc'[t] # pc[t] \/ retries'[t] # retries[t] \/ elapsed'[t] # elapsed[t]

\* C1: once a setExitStatus call has returned a status (running() is false)
\* every later call returns one too (running() is never true again), and an
\* exit status that is set is never changed nor reset to None.
C1_RunningMonotonic ==
    [][ /\ exitStatus # None => exitStatus' = exitStatus
        /\ everFalse => \A t \in Threads :
              (pc'[t] = "sx_ret" /\ pc[t] # "sx_ret") => rv'[t] # None ]_vars

\* two threads have each come back from setExitStatus with the status
C1_Witness ==
    /\ everFalse
    /\ pc["main"] = "sx_ret" /\ rv["main"] # None
    /\ pc["aux"] = "sx_ret" /\ rv["aux"] # None
    /\ cont["main"] = "wait" /\ cont["aux"] = "running"

\* the claim's precedence list, most severe first
ClaimedPrecedence ==
    <<SKIPPED, BLOCKED, DUMPEDCORE, TIMEDOUT, FAILED, NOTVERIFIED, INSPECT, PASSED>>
MostSevere(list) ==
    LET recorded == {list[i] : i \in 1..Len(list)}
        first == CHOOSE i \in 1..Len(ClaimedPrecedence) :
                    /\ ClaimedPrecedence[i] \in recorded
                    /\ \A j \in 1..(i - 1) : ClaimedPrecedence[j] \notin recorded
    IN IF list = <<>> THEN NOTVERIFIED ELSE ClaimedPrecedence[first]

\* C2: getOutcome returns the recorded outcome that comes first in the
\* precedence list, whatever the order of recording, and NOTVERIFIED when
\* nothing was recorded.
C2_GetOutcomeMostSevere ==
    outcome.got # None => Val(outcome.got) = MostSevere(outcome.list)

\* the aggregate is neither the first nor the last outcome recorded
C2_Witness ==
    /\ outcome.got # None
    /\ Len(outcome.list) = 3
    /\ outcome.list[1] # Val(outcome.got)
    /\ outcome.list[3] # Val(outcome.got)

\* C3: the bytes on the child's stdin are the payloads of the first k write()
\* calls, whole and in call order, for some k.
C3_StdinInCallOrder ==
    \E k \in 0..Len(submitted) : stdinPipe = Flatten(SubSeq(submitted, 1, k))

\* two different payloads have both been written
C3_Witness ==
    /\ Len(submitted) >= 2
    /\ submitted[1] # submitted[2]
    /\ stdinPipe = submitted[1] \o submitted[2]

\* C4: a FOREGROUND start() that returns normally has seen the exit status
\* set; one that raises ProcessTimeout had a timeout and waited longer.
C4_ForegroundStartWaits ==
    /\ (res.api = "start" /\ res.out = "returned" /\ state = FOREGROUND)
          => exitStatus # None
    /\ (res.api = "start" /\ res.out = "ProcessTimeout")
          => /\ state = FOREGROUND
             /\ timeout # 0
             /\ elapsed[res.by] > timeout

\* a FOREGROUND start() has just returned normally
C4_Witness ==
    res.api = "start" /\ res.out = "returned" /\ state = FOREGROUND

C7_StartRaisesIffNotLaunched ==
    res.api = "start" => (res.out = "ProcessError" <=> ~launchable)

\* C8: os.kill is never called with the exit status recorded; a stop() that
\* finds it recorded gets no further than the test, and a stop() raises only
\* after it went on to signal.
C8_StopAfterExitIsNoOp ==
    /\ ~sigAfterExit
    /\ \A t \in Callers : pc[t] = "stop_kill" => exitStatus = None
    /\ (res.api = "stop" /\ res.out # "returned") => res.cause # "none"

\* a stop() has returned on a handle whose child exited by itself and was
\* never signalled
C8_Witness ==
    /\ res.api = "stop" /\ res.out = "returned"
    /\ exitStatus # None
    /\ childEnd.kind = "exit"
    /\ ~sigPending

\* C9 as claimed: stop() raises ProcessError if and only if the signal could
\* not be delivered; a timeout of its wait surfaces as ProcessTimeout.
C9_Original ==
    res.api = "stop" =>
        /\ res.out = "ProcessError" <=> res.cause = "OSError"
        /\ res.cause = "ProcessTimeout" => res.out = "ProcessTimeout"

\* C9 as amended: stop() returns only with the exit status set; it raises
\* ProcessError when the signal could not be delivered and also when its
\* wait timed out, and never raises ProcessTimeout.
C9_StopErrors ==
    res.api = "stop" =>
        /\ res.out \in {"returned", "ProcessError"}
        /\ res.out = "ProcessError" <=> res.cause \in {"OSError", "ProcessTimeout"}
        /\ res.out = "returned" => exitStatus # None

\* a stop() whose wait timed out has just raised ProcessError
C9_Witness ==
    res.api = "stop" /\ res.out = "ProcessError" /\ res.cause = "ProcessTimeout"

\* C10: write() never raises.
C10_WriteNeverRaises ==
    res.api = "write" => res.out = "returned"

(***************************************************************************)
(* BackgroundThread                                                        *)
(***************************************************************************)
\* the Exception the target raised, if it raised one
RaisedException ==
    IF raised # None /\ Val(raised).ex.kind = "Exception"
       THEN Some(Val(raised).ex) ELSE None
JoinEnded == jres.out \in {"returned", "abort"}

\* C11: whatever joins are made of one BackgroundThread, at most one outcome
\* is added to the owner, and a join that is not the first adds none.
C11_JoinReportsOnce ==
    /\ [](Len(reasons) <= 1 /\ Len(outcome.list) = Len(reasons))
    /\ [][ (jpc # "idle" /\ jloc.outcomereported) =>
              (reasons' = reasons /\ outcome'.list = outcome.list) ]_vars

\* a second join has found the thread failed or alive and has returned, with
\* the one outcome of the first join
C11_Witness ==
    /\ jres.out = "returned" /\ ~jres.first
    /\ jres.found \in {"alive", "exception"}
    /\ Len(reasons) = 1

C13_Original ==
    /\ (JoinEnded /\ jres.found # "alive"
          /\ RaisedException # None /\ ~Val(raised).stopping)
       => BlockedReason(Val(RaisedException)) \in Range(reasons)
    /\ (RaisedException # None /\ Val(raised).stopping)
       => \A r \in Range(reasons) : r.outcome # BLOCKED

\* C13 as amended: the Exception is kept in self.exception exactly when
\* stopping is not set at the time __run catches it; the first join, if it
\* finds the thread terminated with an exception kept, adds BLOCKED with the
\* exception's class and message; BLOCKED is added for no other reason, and
\* never for an exception raised with stopping set.
C13_BlockedOutcome ==
    /\ [] /\ (JoinEnded /\ jres.found = "exception" /\ jres.first)
                => reasons = <<BlockedReason(Val(exception))>>
          /\ (RaisedException # None /\ Val(raised).stopping)
                => (exception = None /\ \A r \in Range(reasons) : r.outcome # BLOCKED)
          /\ exception # None => exception = RaisedException
          /\ \A r \in Range(reasons) :
                r.outcome = BLOCKED =>
                    (exception # None /\ r = BlockedReason(Val(exception)))
    /\ [][ (tpc = "except" /\ tpc' = "finally" /\ Val(inflight).kind = "Exception")
              => (exception' # None <=> ~stopping) ]_vars

\* a first join has found the thread failed and has added BLOCKED
C13_Witness ==
    /\ jres.out = "returned" /\ jres.found = "exception" /\ jres.first
    /\ reasons = <<BlockedReason(Val(RaisedException))>>

\* C14 as claimed: a terminated thread has flushed the log handler and has
\* cleared its own handlers, and what its target raised is kept on the
\* object and has not left the thread.
C14_Original ==
    tpc = "terminated" =>
        /\ flushed
        /\ handlers[BgThread] = {}
        /\ raised # None => (exception = Some(Val(raised).ex) /\ ~propagated)

\* C14 as amended: a terminated thread has flushed the log handler and has
\* cleared its own handlers on every path; an Exception of the target has
\* not left the thread, and it is kept on the object unless the thread had
\* been asked to stop, in which case it is only logged.
C14_RunFinalizer ==
    tpc = "terminated" =>
        /\ flushed
        /\ handlers[BgThread] = {}
        /\ RaisedException # None =>
              /\ ~propagated
              /\ \/ exception = RaisedException
                 \/ exception = None /\ stopping
                       /\ Record(BgThread, "failed") \in bgEmitted

\* a thread whose target raised an Exception has terminated with it kept
C14_Witness ==
    tpc = "terminated" /\ RaisedException # None /\ exception = RaisedException

\* C15: every record the background thread emits is in each sink that its
\* owner's thread had registered when the thread was created, and no other
\* sink holds a record of the background thread.
C15_LogsGoToOwner ==
    \A s \in Sinks :
        IF s = FirstSink(owner)
           THEN \A rec \in bgEmitted : rec \in sinkLog[s]
           ELSE \A rec \in sinkLog[s] : rec.by # BgThread

\* the target has logged to the owner's run.log after the owner's thread has
\* gone on to another test
C15_Witness ==
    /\ Record(BgThread, "target") \in sinkLog[FirstSink(owner)]
    /\ handlers[owner] = {NextSink(owner)}
    /\ Record(owner, "test") \in sinkLog[NextSink(owner)]

(***************************************************************************)
(* The thread-scoped handlers                                              *)
(***************************************************************************)
\* C16: a thread-scoped handler writes only the records of the thread that
\* made it: stdout holds only records of the main thread and the run.log of
\* each worker's test only records of that worker, whatever the main thread,
\* the other worker and a background thread log meanwhile.
C16_HandlerWritesOwnThread ==
    /\ \A rec \in streamLog[Stdout] : rec.by = MainThread
    /\ \A w \in Workers :
          \A rec \in streamLog[FirstSink(w)] \cup streamLog[NextSink(w)] : rec.by = w

\* two workers run tests at once, each with its handler on the root logger,
\* and each run.log has got records
C16_Witness ==
    /\ \A w \in Workers :
          /\ ThreadedHandler(w, CurrentSink(w)) \in rootHandlers
          /\ streamLog[CurrentSink(w)] = {Record(w, m) : m \in Messages}
    /\ testNo["worker1"] # testNo["worker2"]

(***************************************************************************)
(* BaseTest                                                                *)
(***************************************************************************)
Last(s) == s[Len(s)]

\* C17: assertTrue and assertFalse never raise: each call returns having
\* appended one outcome, PASSED when the expression is true (false for
\* assertFalse) and FAILED otherwise, also after a failed assertion; a test
\* with the one outcome of assertTrue(true) is PASSED, with that of
\* assertTrue(false) FAILED.
C17_AssertionsAreOutcomes ==
    /\ ures.svc \in {"assertTrue", "assertFalse"} =>
          /\ ures.out = "returned"
          /\ Len(outcome.list) = ures.len + 1
          /\ Last(outcome.list) =
                IF ures.arg = (IF ures.svc = "assertTrue" THEN PY_TRUE ELSE PY_FALSE)
                   THEN PASSED ELSE FAILED
    /\ (outcome.got # None /\ Len(outcome.list) = 1
           /\ ures.svc = "assertTrue" /\ ures.arg \in {PY_TRUE, PY_FALSE}) =>
          Val(outcome.got) = IF ures.arg = PY_TRUE THEN PASSED ELSE FAILED

\* an assertion has been evaluated after a failed one, and the test of the
\* three assertions is FAILED
C17_Witness ==
    /\ outcome.list = <<PASSED, FAILED, PASSED>>
    /\ ures.svc = "assertTrue" /\ ures.arg = PY_TRUE
    /\ outcome.got = Some(FAILED)

\* C18: startProcess, stopProcess and signalProcess return normally also
\* when the call of the process raised ProcessError, and a ProcessError has
\* added BLOCKED to the test's outcomes.
C18_ProcessErrorsBecomeBlocked ==
    ures.svc \in {"startProcess", "stopProcess", "signalProcess"} =>
        /\ ures.out = "returned"
        /\ ures.callee = "ProcessError" =>
              /\ Len(outcome.list) = ures.len + 1
              /\ Last(outcome.list) = BLOCKED

\* stopProcess has returned after the stop() of a running process raised
C18_Witness ==
    /\ ures.svc = "stopProcess" /\ ures.callee = "ProcessError"
    /\ Last(outcome.list) = BLOCKED
    /\ \E p \in Range(processList) : procState[p] = "running"

\* C19: when cleanup() has returned, no process started through
\* startProcess is running.
C19_CleanupStopsAll ==
    (ures.svc = "cleanup" /\ ures.out = "returned") =>
        \A p \in startedProcs : procState[p] # "running"

(***************************************************************************)
(* The Scheduler                                                           *)
(***************************************************************************)
CleanupRuns(u) == Cardinality({i \in 1..Len(ran[u]) : ran[u][i] = "cleanup"})
\* cleanup is the last phase run, after execute and validate
CleanupLast(u) ==
    \A i \in 1..Len(ran[u]) : ran[u][i] = "cleanup" => i = Len(ran[u])

Recorded(u, o, r) ==
    \E i \in 1..Len(unitOutcomes[u]) : unitOutcomes[u][i] = <<o, r>>
Ended(u) == unitState[u] \in {"COMPLETED", "ABORTED"}
UnitsInFlight == {u \in Units : InFlight(u)}

C22_ExceptionBecomesBlocked ==
    /\ \A u \in thrown :
          /\ Recorded(u, BLOCKED, "exception")
          /\ unitState[u] \in {"CLEANING_UP", "COMPLETED", "ABORTED"}
          /\ unitState[u] = "COMPLETED" => (CleanupRuns(u) = 1 /\ CleanupLast(u))
    /\ (rpc = "running" /\ ~interrupted) =>
          /\ idle + Cardinality(UnitsInFlight) = threads
          /\ \A v \in Units :
                (unitState[v] = "PENDING" /\ UnitsInFlight = {}
                    /\ \A u \in Units : Ended(u) => reported[u] = Len(Writers))
                => ENABLED dispatch(v)

\* the only worker has completed a unit whose execute raised and is
\* executing the next unit
C22_Witness ==
    /\ threads = 1
    /\ "u1" \in thrown /\ unitState["u1"] = "COMPLETED"
    /\ ran["u1"] = <<"execute", "cleanup">>
    /\ unitState["u2"] = "EXECUTING"

\* C23 as claimed: when an interrupted run has exited, every unit that had
\* started and is not COMPLETED has the aggregate outcome BLOCKED, with the
\* reason of the interruption recorded, and its result was reported to
\* every writer.
C23_Original ==
    (rpc = "exited" /\ interrupted) =>
        \A u \in outDirs :
            unitState[u] # "COMPLETED" =>
                /\ UnitOutcome(u) = BLOCKED
                /\ Recorded(u, BLOCKED, "interruption")
                /\ reported[u] = Len(Writers)

\* C23 as amended: no unit reaches COMPLETED once interruption is
\* requested; when the interrupted run has exited, every unit that had
\* started and is not COMPLETED has BLOCKED recorded with the reason of the
\* interruption and its result was reported to every writer; its aggregate
\* outcome is BLOCKED unless the unit had recorded SKIPPED, which is more
\* severe.
C23_InterruptedUnitsBlocked ==
    /\ [](\A u \in outDirs :
            /\ unitState[u] = "ABORTED" =>
                /\ Recorded(u, BLOCKED, "interruption")
                /\ UnitOutcome(u) = BLOCKED \/
                      (Recorded(u, SKIPPED, "test") /\ UnitOutcome(u) = SKIPPED)
            /\ (rpc = "exited" /\ interrupted /\ unitState[u] # "COMPLETED") =>
                  (unitState[u] = "ABORTED" /\ reported[u] = Len(Writers)))
    /\ [][interrupted =>
            \A u \in Units : unitState'[u] = "COMPLETED" => unitState[u] = "COMPLETED"]_vars

\* the run was interrupted with two units in flight and has exited: both
\* are BLOCKED by the interruption and reported
C23_Witness ==
    /\ rpc = "exited" /\ interrupted
    /\ \A u \in Units :
          /\ unitState[u] = "ABORTED"
          /\ UnitOutcome(u) = BLOCKED
          /\ Recorded(u, BLOCKED, "interruption")
          /\ reported[u] = Len(Writers)

\* C24: once interruption is requested, a pending unit stays pending, its
\* output directory is not created and no writer gets a result for it.
C24_PendingNeverDispatched ==
    /\ [](interrupted =>
            \A u \in Units :
                unitState[u] = "PENDING" =>
                    /\ u \notin outDirs /\ u \notin inprogress
                    /\ reported[u] = 0 /\ \A c \in calls : c.unit # u)
    /\ [][interrupted =>
            \A u \in Units : unitState[u] = "PENDING" => unitState'[u] = "PENDING"]_vars

\* the interrupted run has exited with one unit aborted and the other one
\* still pending
C24_Witness ==
    /\ rpc = "exited" /\ interrupted
    /\ unitState["u1"] = "ABORTED"
    /\ unitState["u2"] = "PENDING" /\ "u2" \notin outDirs /\ reported["u2"] = 0

\* C25: when an interrupted run is past the cleanup of its writers, the
\* cleanup of every registered writer was invoked, a failed one being
\* logged as a warning, and when it has exited the runner's own cleanup
\* hook was invoked.
C25_CleanupHooksAfterInterrupt ==
    interrupted =>
        /\ rpc \in {"cleanup", "exit", "exited"} =>
              \A w \in Range(Writers) : wcleanup[w] \in {"ok", "warned"}
        /\ rpc \in {"exit", "exited"} => cleanedUp

\* the interrupted run has exited: the cleanup of the first writer failed,
\* that of the summary writer and that of the runner were still invoked
C25_Witness ==
    /\ rpc = "exited" /\ interrupted
    /\ wcleanup["progress"] = "warned" /\ wcleanup["summary"] = "ok"
    /\ cleanedUp

\* C26: the summary is never printed twice, and it has been printed once
\* when the cleanup of the writers is over, in a run that completed and in
\* an interrupted one.
C26_SummaryOnce ==
    /\ summaries <= 1
    /\ rpc \in {"cleanup", "exit", "exited"} => summaries = 1

\* an interrupted run with a unit force-aborted has exited with one summary
C26_Witness ==
    /\ rpc = "exited" /\ interrupted /\ summaries = 1
    /\ \E u \in Units : unitState[u] = "ABORTED" /\ CleanupRuns(u) = 0

C28_ProcessResultSerialized ==
    \A c1 \in calls, c2 \in calls :
        (c1.method = "processResult" /\ c2.method = "processResult") =>
            (c1 = c2 /\ c1.thread = MainThread)

\* with two workers, a processResult call for one unit is being executed
\* while the result of the other waits and the run is not interrupted
C28_Witness ==
    /\ threads = 2 /\ ~interrupted
    /\ \E c \in calls : c.unit = "u1" /\ c.method = "processResult"
    /\ unitState["u2"] = "COMPLETED" /\ reported["u2"] = 0

\* C29 as claimed: on the progress writer at most one unit is between its
\* processTestStarting and its processResult.
C29_Original ==
    Cardinality(inprogress) <= 1

\* C29 as amended: on a writer the processTestStarting of a unit comes
\* before its processResult, and the results are given to the writers one
\* unit at a time; the units between their processTestStarting and their
\* processResult are the started units whose result the progress writer
\* has not got, at most one of them when threads = 1, more when units
\* execute in parallel.
C29_PairsOrdered ==
    /\ \A u \in Units :
          /\ (reported[u] > 0 \/ \E c \in calls : c.unit = u) => u \in outDirs
          /\ u \in inprogress <=>
                (u \in outDirs /\ reported[u] = 0 /\ \A c \in calls : c.unit # u)
    /\ \A u \in Units, v \in Units :
          u # v => (reported[u] \in {0, Len(Writers)} \/ reported[v] \in {0, Len(Writers)})
    /\ threads = 1 => Cardinality(inprogress) <= 1

\* the result of the first unit has been given to the progress writer
\* while the second unit, started in parallel, is in progress
C29_Witness ==
    /\ threads = 2
    /\ reported["u1"] = Len(Writers) /\ "u1" \notin inprogress
    /\ unitState["u2"] = "EXECUTING" /\ "u2" \in inprogress

\* C30: the units in flight are never more than threads; with threads = 1
\* a unit is dispatched only when every other unit is pending or has ended
\* with its cleanup run.
C30_PoolBound ==
    /\ [](Cardinality(UnitsInFlight) <= threads /\ idle >= 0)
    /\ [][threads = 1 =>
            \A u \in Units :
                (unitState[u] = "PENDING" /\ unitState'[u] # "PENDING") =>
                    \A v \in Units \ {u} :
                        \/ unitState[v] = "PENDING"
                        \/ Ended(v) /\ CleanupRuns(v) = 1 /\ CleanupLast(v)]_vars

\* the only worker has completed the first unit, cleanup included, and is in
\* the cleanup of the second
C30_Witness ==
    /\ threads = 1
    /\ unitState["u1"] = "COMPLETED" /\ CleanupRuns("u1") = 1
    /\ unitState["u2"] = "CLEANING_UP"


\* C34: once the exit status of a handle is set no call asks the OS for the
\* child again: every os.waitpid is made with exitStatus unset, the status
\* that is set never changes, and a reaped child stays reaped.
C34_ReapedOnce ==
    [][/\ \A t \in Threads :
             (pc[t] = "sx_reap" /\ <<pc[t], retries[t], res>>' # <<pc[t], retries[t], res>>)
                => exitStatus = None
       /\ exitStatus # None => exitStatus' = exitStatus
       /\ child = "reaped" => child' = "reaped" /\ exitStatus # None]_vars

\* the child was reaped once, and the writer thread and a caller have both
\* come back from setExitStatus with its status
C34_Witness ==
    /\ child = "reaped"
    /\ pc[Writer] = "sx_ret" /\ rv[Writer] = exitStatus
    /\ pc["aux"] = "sx_ret" /\ rv["aux"] = exitStatus
    /\ exitStatus # None

\* C35: a waitpid that raises ECHILD costs one of the three retries, so that
\* setExitStatus asks at most three times; when the third one has raised
\* ECHILD too the loop is over with exitStatus unset, setExitStatus returns
\* None without raising, and running() is True.
C35_EchildRetriesBounded ==
    /\ \A t \in Threads :
          /\ pc[t] = "sx_reap" => retries[t] \in 1..RETRIES
          /\ pc[t] = "sx_fin" => retries[t] = 0 /\ lock = Some(t)
          /\ (pc[t] = "sx_fin" /\ exitStatus = None) => ENABLED setExitStatus_close(t)
          /\ res = EchildRaised(t) =>
                /\ exitStatus = None
                /\ pc[t] = IF retries[t] > 0 THEN "sx_reap" ELSE "sx_fin"
    /\ \A t \in Callers :
          (pc[t] = "sx_ret" /\ cont[t] = "running" /\ rv[t] = None)
             => ENABLED (running_return(t) /\ res'.out = "True")

\* a step of the loop takes a retry, and the return that follows an
\* unset exitStatus returns None
C35_RetriesDecrease ==
    [][\A t \in Threads :
          /\ (pc[t] = "sx_reap" /\ res' = EchildRaised(t)) => retries'[t] = retries[t] - 1
          /\ (pc[t] = "sx_fin" /\ exitStatus = None /\ pc'[t] = "sx_ret")
                => rv'[t] = None /\ exitStatus' = None]_vars

C35_EchildGivenUp == []C35_EchildRetriesBounded /\ C35_RetriesDecrease

\* the third waitpid of a call has raised ECHILD, with the child a zombie
C35_Witness ==
    \E t \in Callers :
       /\ res = EchildRaised(t) /\ pc[t] = "sx_fin" /\ retries[t] = 0
       /\ cont[t] = "running" /\ child = "zombie"

\* C36 as claimed: a thread that reads self.exitStatus holds self.__lock.
\* The test `self.exitStatus == os.EX_OSERR` of startBackgroundProcess is
\* such a read, made after running() has returned False.
C36_ExitStatusReadUnderLock ==
    [][\A t \in Callers :
          (pc[t] = "sx_ret" /\ cont[t] = "startcheck" /\ rv[t] # None /\ pc'[t] # pc[t])
             => lock = Some(t)]_vars

\* C37: join polls the thread one second at a time and at most `timeout`
\* times, with a timeout that is positive: the one it was given, or
\* joinTimeoutSecs when it was given None or 0.  Whatever the thread does,
\* join has a next step at every place it can be in, so that it ends once
\* the timeout has elapsed.
C37_JoinPollsBounded ==
    /\ joinTimeoutSecs > 0
    /\ jpc # "idle" =>
          /\ jloc.timeout = (IF jloc.asked = 0 THEN joinTimeoutSecs ELSE jloc.asked)
          /\ jloc.timeout > 0
          /\ jloc.timetaken \in 0..jloc.timeout
    /\ jpc = "loop" => ENABLED join_loop
    /\ (jpc = "loop" /\ jloc.timetaken = jloc.timeout) => ENABLED (join_loop /\ jpc' = "check")
    /\ jpc = "check" => ENABLED join_check
    /\ jpc = "stop" => ENABLED join_stop

\* a poll lasts one second at most, and no step of join takes time back
C37_OneSecondPolls ==
    [][jpc = "loop" => /\ jloc'.timetaken \in {jloc.timetaken, jloc.timetaken + 1}
                       /\ jloc'.timeout = jloc.timeout]_vars

C37_JoinAlwaysEnds == []C37_JoinPollsBounded /\ C37_OneSecondPolls

\* a join that was given no timeout has polled a thread that is still alive
\* for joinTimeoutSecs and has returned
C37_Witness ==
    /\ jres.out = "returned" /\ jres.found = "alive"
    /\ jloc.asked = 0 /\ jres.timeout = joinTimeoutSecs
    /\ jres.timetaken = joinTimeoutSecs
    /\ is_alive

\* C31: the write end of the stdin pipe is closed once at most; it is closed
\* by the setExitStatus call that has set the exit status, before that call
\* releases the lock, so that no thread that takes the lock finds the status
\* set and the descriptor open; it is closed for no other reason; and
\* os.write is never called on it after the close.
C31_StdinClosedOnce ==
    /\ stdinCloses <= 1
    /\ ~wroteClosed
    /\ (exitStatus # None /\ stdin # None) =>
          \E t \in Threads : lock = Some(t) /\ pc[t] = "sx_fin"
    /\ stdinCloses = 1 <=> (pid # None /\ stdin = None)
    /\ stdinCloses = 1 => exitStatus # None

\* stop() has ended a child that was fed through its stdin: the descriptor
\* was closed once, while the writer thread was still at work
C31_Witness ==
    /\ stdinCloses = 1
    /\ childEnd.kind = "signal"
    /\ stdinPipe # <<>>
    /\ pc[Writer] = "w_lock"
    /\ res.api = "stop" /\ res.out = "returned"

\* C32 as claimed: the writer thread is never blocked in os.write on a full
\* pipe with the handle's lock in its hands.
C32_WriterNeverBlockedWithLock ==
    ~(/\ pc[Writer] = "w_write"
      /\ lock = Some(Writer)
      /\ child = "running"
      /\ unread = PipeCapacity)

\* C33 as claimed: when the writer thread has ended, every payload that was
\* put on the queue while the child ran is on the child's stdin.
C33_NoDroppedWrites ==
    pc[Writer] \in {"w_done", "w_dead"} =>
       \E k \in sentRunning..Len(submitted) :
          stdinPipe = Flatten(SubSeq(submitted, 1, k))

\* the step the holder of the lock takes next
LockHolderStep ==
    \/ \E u \in Threads : setExitStatus_waitpid(u) \/ setExitStatus_close(u)
    \/ \E u \in Callers : stop_kill(u)
    \/ writeStdin_write

\* C38 as claimed: a caller that waits for the handle's lock gets it: the
\* thread that holds the lock is never the waiting thread itself, and it
\* can always go on to release it.
C38_CallersGetTheLock ==
    \A t \in Callers :
       (pc[t] \in {"sx_acq", "stop_acq"} /\ lock # None) =>
          /\ lock # Some(t)
          /\ ENABLED LockHolderStep

\* C39: once the child of a started handle has exited, the writer thread of
\* the handle comes to its end, whatever the queue holds and whether or not
\* another thread calls running().
C39_WriterEnds ==
    (child \in {"zombie", "reaped"}) ~> (pc[Writer] \in {"w_done", "w_dead"})

\* the writer thread has ended after the exit of a child that has not got
\* all the payloads, while start's own running() call has not begun
C39_Witness ==
    /\ pc[Writer] = "w_done"
    /\ child = "reaped"
    /\ stdinPipe # Flatten(submitted)
    /\ pc["main"] = "sx_acq" /\ cont["main"] = "startcheck"

\* what the writer displays of a set of units
Displayed(units) == {testToDisplay(u[1], u[2]) : u \in units}

\* C40 as claimed: the in-progress set is the set of the units given to
\* processTestStarting and not yet to processResult, whatever numTests is.
C40_Original ==
    numTests > 0 => inprogress = Displayed(pwStarted \ pwProcessed)

\* C40 as amended: in a run of more than one test the in-progress set is
\* the set of the units given to processTestStarting and not yet to
\* processResult, and it is empty once every started unit was processed;
\* in a run of one test processResult returns before it removes anything,
\* and the unit stays in the set.
C40_InProgressSet ==
    /\ numTests > 1 =>
          /\ inprogress = Displayed(pwStarted \ pwProcessed)
          /\ pwProcessed = pwStarted => inprogress = {}
    /\ numTests = 1 => inprogress = Displayed(pwStarted)
    /\ numTests = 0 => inprogress = {}

\* every unit of a run of several tests and cycles was started and
\* processed, and the set is empty
C40_Witness ==
    /\ numTests > 1 /\ cycles > 1
    /\ pwStarted = RunUnits /\ pwProcessed = RunUnits
    /\ inprogress = {}
=============================================================================
